---- MODULE Spec2Model ----
(***************************************************************************)
(* A model of the Wayback Machine site ripper (ripper.py) and of its batch *)
(* front end (archive_ripper_batch_gui.py).                                *)
(*                                                                         *)
(* Strings are sequences of one-character strings, so that the regular     *)
(* expressions, the prefix stripping and the path arithmetic of the code   *)
(* are computed character by character, as Python computes them.           *)
(***************************************************************************)
EXTENDS Integers, Sequences, FiniteSets, TLC

\* ------------------------------------------------------------------------
\* String primitives (Python str methods)
\* ------------------------------------------------------------------------

Digits == {"0", "1", "2", "3", "4", "5", "6", "7", "8", "9"}

Letters ==
  {"a", "b", "c", "d", "e", "f", "g", "h", "i", "j", "k", "l", "m",
   "n", "o", "p", "q", "r", "s", "t", "u", "v", "w", "x", "y", "z"}

\* a local variable: v is computed once and named in Op
With(v, Op(_)) == Op(v)

Min(a, b) == IF a <= b THEN a ELSE b

\* s[i:] of Python, for a 1-based i
Drop(s, i) == SubSeq(s, i, Len(s))

\* s[:n] of Python
Take(s, n) == SubSeq(s, 1, n)

\* s.startswith(p)
StartsWith(s, p) == Len(p) <= Len(s) /\ SubSeq(s, 1, Len(p)) = p

\* s.endswith(p)
EndsWith(s, p) == Len(p) <= Len(s) /\ SubSeq(s, Len(s) - Len(p) + 1, Len(s)) = p

\* whether sub occurs in s at the 1-based position i
OccursAt(s, sub, i) ==
  i >= 1 /\ i + Len(sub) - 1 <= Len(s) /\ SubSeq(s, i, i + Len(sub) - 1) = sub

\* the positions at which sub occurs in s
Occurrences(s, sub) == {i \in 1..Len(s) : OccursAt(s, sub, i)}

\* sub in s
Contains(s, sub) == Occurrences(s, sub) # {}

SetMin(S) == CHOOSE x \in S : \A y \in S : x <= y

SetMax(S) == CHOOSE x \in S : \A y \in S : x >= y

\* s.find(sub), 1-based, 0 when sub does not occur
Find(s, sub) == IF Contains(s, sub) THEN SetMin(Occurrences(s, sub)) ELSE 0

\* s.rfind(sub), 1-based, 0 when sub does not occur
RFind(s, sub) == IF Contains(s, sub) THEN SetMax(Occurrences(s, sub)) ELSE 0

\* s.lstrip(chars)
RECURSIVE LStrip(_, _)
LStrip(s, chars) ==
  IF s # <<>> /\ Head(s) \in chars THEN LStrip(Tail(s), chars) ELSE s

\* s.rstrip(chars)
RECURSIVE RStrip(_, _)
RStrip(s, chars) ==
  IF s # <<>> /\ s[Len(s)] \in chars THEN RStrip(Take(s, Len(s) - 1), chars) ELSE s

\* s.replace(a, b) for single characters a and b
ReplaceChar(s, a, b) == [i \in 1..Len(s) |-> IF s[i] = a THEN b ELSE s[i]]

\* the length of the longest prefix of s made of characters of chars
RECURSIVE SpanLen(_, _)
SpanLen(s, chars) ==
  IF s # <<>> /\ Head(s) \in chars THEN 1 + SpanLen(Tail(s), chars) ELSE 0

\* s.split(sep) for a single character sep
RECURSIVE Split(_, _)
Split(s, sep) ==
  With(Find(s, <<sep>>), LAMBDA i :
    IF i = 0 THEN <<s>> ELSE <<Take(s, i - 1)>> \o Split(Drop(s, i + 1), sep))

\* sep.join(parts) for a single character sep
RECURSIVE Join(_, _)
Join(parts, sep) ==
  IF parts = <<>> THEN <<>>
  ELSE IF Len(parts) = 1 THEN parts[1]
  ELSE parts[1] \o <<sep>> \o Join(Tail(parts), sep)

\* ------------------------------------------------------------------------
\* String constants of ripper.py
\* ------------------------------------------------------------------------

S_http == <<"h", "t", "t", "p">>

S_https == <<"h", "t", "t", "p", "s">>

S_colon_slashes == <<":", "/", "/">>

S_web_archive_org == <<"w", "e", "b", ".", "a", "r", "c", "h", "i", "v", "e", ".", "o", "r", "g">>

S_web_static_archive_org ==
  <<"w", "e", "b", "-", "s", "t", "a", "t", "i", "c", ".",
    "a", "r", "c", "h", "i", "v", "e", ".", "o", "r", "g">>

S_web == <<"/", "w", "e", "b", "/">>

S_id == <<"i", "d", "_">>

S_data == <<"d", "a", "t", "a", ":">>

S_index_html == <<"i", "n", "d", "e", "x", ".", "h", "t", "m", "l">>

S_dot_html == <<".", "h", "t", "m", "l">>

S_dot_htm == <<".", "h", "t", "m">>

S_dot_css == <<".", "c", "s", "s">>

S_dot_js == <<".", "j", "s">>

S_dot_svg == <<".", "s", "v", "g">>

S_dot_png == <<".", "p", "n", "g">>

\* ARCHIVE_PREFIX = 'https://web.archive.org/web/'
ARCHIVE_PREFIX == S_https \o S_colon_slashes \o S_web_archive_org \o S_web

\* the other prefix the pattern of parse_archive_url accepts (https? with no s)
ARCHIVE_PREFIX_HTTP == S_http \o S_colon_slashes \o S_web_archive_org \o S_web

\* 'https://web.archive.org', prepended to references that start with /web/
ARCHIVE_ORIGIN == S_https \o S_colon_slashes \o S_web_archive_org

\* ------------------------------------------------------------------------
\* Snapshot addressing
\* ------------------------------------------------------------------------

\* make_archive_url(timestamp, original_url, raw)
make_archive_url(timestamp, original_url, raw) ==
  IF raw
  THEN ARCHIVE_PREFIX \o timestamp \o S_id \o <<"/">> \o original_url
  ELSE ARCHIVE_PREFIX \o timestamp \o <<"/">> \o original_url

\* The result of a call that raised ValueError.
ParseError == [ok |-> FALSE, timestamp |-> <<>>, original |-> <<>>]

\* The part of the pattern after the host: (\d+)[^/]*/(.*)$ applied to what
\* follows .../web/, then rest.rfind('http').
parse_after_prefix(tail) ==
  With(SpanLen(tail, Digits), LAMBDA nd :
  With(Drop(tail, nd + 1), LAMBDA after :
  With(Find(after, <<"/">>), LAMBDA slash :
  With(Drop(after, slash + 1), LAMBDA rest :
  With(RFind(rest, S_http), LAMBDA idx :
    IF nd = 0 \/ slash = 0 \/ idx = 0
    THEN ParseError
    ELSE [ok |-> TRUE, timestamp |-> Take(tail, nd), original |-> Drop(rest, idx)])))))

\* A parse that skips the match against the snapshot pattern: the original
\* is what follows the last 'http', the timestamp the digits after /web/.
parse_archive_url_unmatched(url) ==
  With(RFind(url, S_http), LAMBDA idx :
  With(Find(url, S_web), LAMBDA w :
  With(Drop(url, w + Len(S_web)), LAMBDA tail :
    IF idx = 0 THEN ParseError
    ELSE [ok |-> TRUE,
          timestamp |-> IF w = 0 THEN <<>> ELSE Take(tail, SpanLen(tail, Digits)),
          original |-> Drop(url, idx)])))

\* parse_archive_url(url): [ok, timestamp, original]; ok = FALSE is ValueError
parse_archive_url(url) ==
  IF StartsWith(url, ARCHIVE_PREFIX)
  THEN parse_after_prefix(Drop(url, Len(ARCHIVE_PREFIX) + 1))
  ELSE IF StartsWith(url, ARCHIVE_PREFIX_HTTP)
  THEN parse_after_prefix(Drop(url, Len(ARCHIVE_PREFIX_HTTP) + 1))
  ELSE ParseError

\* ------------------------------------------------------------------------
\* urllib.parse and os.path
\* ------------------------------------------------------------------------

SchemeChars == Letters \cup Digits \cup {"+", "-", "."}

\* the position of the first character of s that is in chars, Len(s)+1 if none
FirstOf(s, chars) ==
  With({i \in 1..Len(s) : s[i] \in chars}, LAMBDA hits :
    IF hits = {} THEN Len(s) + 1 ELSE SetMin(hits))

\* urlparse(url): scheme, netloc, path, query, fragment
urlparse(url) ==
  With(Find(url, <<":">>), LAMBDA colon :
  With(colon > 1 /\ url[1] \in Letters /\ \A i \in 1..(colon - 1) : url[i] \in SchemeChars,
       LAMBDA hasScheme :
  With(IF hasScheme THEN Drop(url, colon + 1) ELSE url, LAMBDA u1 :
  With(StartsWith(u1, <<"/", "/">>), LAMBDA hasNet :
  With(Drop(u1, 3), LAMBDA u1b :
  With(FirstOf(u1b, {"/", "?", "#"}), LAMBDA delim :
  With(IF hasNet THEN Drop(u1b, delim) ELSE u1, LAMBDA u2 :
  With(Find(u2, <<"#">>), LAMBDA hash :
  With(IF hash > 0 THEN Take(u2, hash - 1) ELSE u2, LAMBDA u3 :
  With(Find(u3, <<"?">>), LAMBDA qm :
    [scheme   |-> IF hasScheme THEN Take(url, colon - 1) ELSE <<>>,
     netloc   |-> IF hasNet THEN Take(u1b, delim - 1) ELSE <<>>,
     path     |-> IF qm > 0 THEN Take(u3, qm - 1) ELSE u3,
     query    |-> IF qm > 0 THEN Drop(u3, qm + 1) ELSE <<>>,
     fragment |-> IF hash > 0 THEN Drop(u2, hash + 1) ELSE <<>>]))))))))))

\* os.path.join(a, b) for a b that does not start with '/'
path_join(a, b) ==
  IF a = <<>> \/ EndsWith(a, <<"/">>) THEN a \o b ELSE a \o <<"/">> \o b

\* os.path.splitext(p): the extension starts at the last dot of the last
\* component, unless only dots precede it in that component
splitext(p) ==
  With(RFind(p, <<"/">>), LAMBDA sepIdx :
  With(RFind(p, <<".">>), LAMBDA dotIdx :
    IF dotIdx > sepIdx /\ {i \in (sepIdx + 1)..(dotIdx - 1) : p[i] # "."} # {}
    THEN [base |-> Take(p, dotIdx - 1), ext |-> Drop(p, dotIdx)]
    ELSE [base |-> p, ext |-> <<>>]))

\* os.path.dirname(p)
dirname(p) ==
  With(Take(p, RFind(p, <<"/">>)), LAMBDA head :
    IF head # <<>> /\ \E k \in 1..Len(head) : head[k] # "/"
    THEN RStrip(head, {"/"})
    ELSE head)

\* the components os.path.normpath keeps: empty and '.' components dropped,
\* 'x/..' collapsed, leading '..' kept
RECURSIVE NormComps(_, _)
NormComps(comps, acc) ==
  IF comps = <<>> THEN acc
  ELSE LET c == Head(comps)
       IN  IF c = <<>> \/ c = <<".">>
           THEN NormComps(Tail(comps), acc)
           ELSE IF c = <<".", ".">> /\ acc # <<>> /\ acc[Len(acc)] # <<".", ".">>
           THEN NormComps(Tail(comps), Take(acc, Len(acc) - 1))
           ELSE NormComps(Tail(comps), Append(acc, c))

\* os.path.normpath(p) of a relative path, as its components
PathComps(p) == NormComps(Split(p, "/"), <<>>)

\* os.path.normpath(p) of a relative path
normpath(p) ==
  With(PathComps(p), LAMBDA c : IF c = <<>> THEN <<".">> ELSE Join(c, "/"))

\* the length of the common prefix of two sequences
RECURSIVE CommonLen(_, _)
CommonLen(a, b) ==
  IF a # <<>> /\ b # <<>> /\ Head(a) = Head(b)
  THEN 1 + CommonLen(Tail(a), Tail(b))
  ELSE 0

\* os.path.relpath(path, start): both are paths under the working directory
relpath(path, start) ==
  With(PathComps(path), LAMBDA pc :
  With(PathComps(start), LAMBDA sc :
  With(CommonLen(pc, sc), LAMBDA i :
  With([k \in 1..(Len(sc) - i) |-> <<".", ".">>] \o Drop(pc, i + 1), LAMBDA rel :
    IF rel = <<>> THEN <<".">> ELSE Join(rel, "/")))))

\* ------------------------------------------------------------------------
\* Local path mapping
\* ------------------------------------------------------------------------

\* The query strings of the modelled sites.
Q_v1 == <<"v", "=", "1">>

Q_v2 == <<"v", "=", "2">>

Q_u == <<"u", "=">> \o S_http \o S_colon_slashes \o <<"b", ".", "o", "r", "g", "/", "x", ".", "p", "n", "g">>

\* hashlib.md5(query.encode()).hexdigest()[:8], tabulated for the query
\* strings of the modelled sites (the values MD5 gives)
Md5Table ==
  { <<Q_v1, <<"3", "8", "6", "0", "9", "a", "2", "8">> >>,
    <<Q_v2, <<"5", "e", "1", "f", "1", "5", "b", "6">> >>,
    <<Q_u,  <<"1", "f", "3", "d", "5", "3", "0", "7">> >> }

md5_hex8(query) == (CHOOSE e \in Md5Table : e[1] = query)[2]

\* compute_local_path(output_dir, original_url, add_ext)
compute_local_path(output_dir, original_url, add_ext) ==
  With(urlparse(original_url), LAMBDA parsed :
  With(IF EndsWith(parsed.path, <<"/">>)
       THEN parsed.path \o S_index_html
       ELSE parsed.path, LAMBDA path :
  With(path_join(output_dir, LStrip(path, {"/"})), LAMBDA local :
  With(splitext(local), LAMBDA se :
  With(IF parsed.query # <<>>
       THEN se.base \o <<"_">> \o md5_hex8(parsed.query) \o se.ext
       ELSE local, LAMBDA hashed :
    IF add_ext THEN hashed \o S_dot_html ELSE hashed)))))

\* The prefixes clean_rel_path strips, in the order of the code's list.
RelPrefixes ==
  << <<".", ".", "/">>, <<".", ".", "\\">>, <<".", "/">>, <<".", "\\">>, <<".">>, <<"\\">> >>

\* one run of the for loop over the prefixes, from prefix number k on
RECURSIVE StripPass(_, _)
StripPass(path, k) ==
  IF k > Len(RelPrefixes) THEN path
  ELSE IF StartsWith(path, RelPrefixes[k])
  THEN StripPass(Drop(path, Len(RelPrefixes[k]) + 1), k + 1)
  ELSE StripPass(path, k + 1)

\* the while loop: passes are repeated until one strips nothing
RECURSIVE StripLoop(_)
StripLoop(path) ==
  With(StripPass(path, 1), LAMBDA next :
    IF next = path THEN path ELSE StripLoop(next))

\* clean_rel_path(path)
clean_rel_path(path) ==
  ReplaceChar(LStrip(StripLoop(path), {"/", "\\"}), "\\", "/")

\* ------------------------------------------------------------------------
\* urllib.parse.urljoin
\* ------------------------------------------------------------------------

\* urlunparse of the five parts (http and https URLs)
urlunparse(scheme, netloc, path, query, fragment) ==
  LET p1 == IF path # <<>> /\ Head(path) # "/" THEN <<"/">> \o path ELSE path
      u1 == <<"/", "/">> \o netloc \o p1
      u2 == IF scheme # <<>> THEN scheme \o <<":">> \o u1 ELSE u1
      u3 == IF query # <<>> THEN u2 \o <<"?">> \o query ELSE u2
  IN  IF fragment # <<>> THEN u3 \o <<"#">> \o fragment ELSE u3

\* segments without the empty ones strictly inside: segments[1:-1] = filter(None, ...)
DropInnerEmpty(segs) ==
  LET n == Len(segs)
  IN  IF n <= 2 THEN segs
      ELSE <<segs[1]>> \o SelectSeq(SubSeq(segs, 2, n - 1), LAMBDA x : x # <<>>)
                      \o <<segs[n]>>

\* the loop of urljoin that resolves '.' and '..'
RECURSIVE ResolveDots(_, _)
ResolveDots(segs, acc) ==
  IF segs = <<>> THEN acc
  ELSE LET g == Head(segs)
       IN  IF g = <<".", ".">>
           THEN ResolveDots(Tail(segs), Take(acc, Len(acc) - 1))
           ELSE IF g = <<".">>
           THEN ResolveDots(Tail(segs), acc)
           ELSE ResolveDots(Tail(segs), Append(acc, g))

\* urljoin(base, url)
urljoin(base, url) ==
  IF base = <<>> THEN url
  ELSE IF url = <<>> THEN base
  ELSE
    With(urlparse(base), LAMBDA b :
    With(urlparse(url), LAMBDA u :
      IF u.scheme # <<>> /\ u.scheme # b.scheme THEN url
      ELSE IF u.netloc # <<>>
      THEN urlunparse(b.scheme, u.netloc, u.path, u.query, u.fragment)
      ELSE IF u.path = <<>>
      THEN urlunparse(b.scheme, b.netloc, b.path,
                      IF u.query # <<>> THEN u.query ELSE b.query, u.fragment)
      ELSE
        With(Split(b.path, "/"), LAMBDA bparts :
        With(IF bparts[Len(bparts)] # <<>>
             THEN Take(bparts, Len(bparts) - 1) ELSE bparts, LAMBDA bdir :
        With(IF Head(u.path) = "/"
             THEN Split(u.path, "/")
             ELSE DropInnerEmpty(bdir \o Split(u.path, "/")), LAMBDA segs :
        With(ResolveDots(segs, <<>>), LAMBDA res0 :
        With(segs[Len(segs)], LAMBDA last :
        With(Join(IF last = <<".">> \/ last = <<".", ".">>
                  THEN Append(res0, <<>>) ELSE res0, "/"), LAMBDA joined :
          urlunparse(b.scheme, b.netloc,
                     IF joined = <<>> THEN <<"/">> ELSE joined,
                     u.query, u.fragment)))))))))

\* ------------------------------------------------------------------------
\* The modelled inputs: timestamps, hosts, original URLs
\* ------------------------------------------------------------------------

TS1 == <<"2", "0", "1", "5", "0", "1", "0", "1", "0", "0", "0", "0", "0", "0">>

TS2 == <<"2", "0", "1", "6", "0", "1", "0", "1", "0", "0", "0", "0", "0", "0">>

\* a partial timestamp, which the Wayback Machine also serves
TS_short == <<"2", "0", "1", "5">>

OUT == <<"o", "u", "t">>

HostA == S_http \o S_colon_slashes \o <<"a", ".", "c", "o", "m">>

HostB == S_http \o S_colon_slashes \o <<"b", ".", "o", "r", "g">>

P_x_png == <<"/", "x">> \o S_dot_png

P_img_x_png == <<"/", "i", "m", "g", "/", "x">> \o S_dot_png

P_index == <<"/">> \o S_index_html

P_d_p_html == <<"/", "d", "/", "p">> \o S_dot_html

P_s_css == <<"/", "s">> \o S_dot_css

P_d_s_css == <<"/", "d", "/", "s">> \o S_dot_css

P_a_js == <<"/", "a">> \o S_dot_js

\* Original URLs handed to the pure functions.
PureUrls ==
  { HostA \o <<"/">>,
    HostA \o P_index,
    HostA \o P_x_png,
    HostB \o P_x_png,
    HostA \o P_img_x_png,
    HostA \o P_x_png \o <<"?">> \o Q_v1,
    HostA \o P_x_png \o <<"?">> \o Q_v2,
    HostA \o P_x_png \o <<"?">> \o Q_u }

\* What may follow the timestamp and its modifier in a URL handed to
\* parse_archive_url.
ParseRests ==
  { HostA \o P_x_png,
    HostA \o P_x_png \o <<"?">> \o Q_u,
    <<"a", ".", "c", "o", "m">> \o P_x_png,
    <<"f", "o", "o", "/">> \o S_http,
    <<>> }

\* URLs handed to parse_archive_url: well-formed and malformed ones.
ParseInputs ==
  { pre \o ts \o md \o sep \o rest :
      pre  \in {ARCHIVE_PREFIX, ARCHIVE_PREFIX_HTTP, HostA \o S_web, HostA \o <<"/">>},
      ts   \in {TS1, TS_short, <<>>},
      md   \in {<<>>, S_id},
      sep  \in {<<"/">>, <<>>},
      rest \in ParseRests }

\* ------------------------------------------------------------------------
\* References: what process_html, rewrite_css and rewrite_js do with one
\* reference before any asset is resolved
\* ------------------------------------------------------------------------

S_archive_org == <<"a", "r", "c", "h", "i", "v", "e", ".", "o", "r", "g">>

S_wayback == <<"w", "a", "y", "b", "a", "c", "k">>

\* SRC_ASSET_TAGS, as far as the modelled pages use them
SRC_ASSET_TAGS == {"img", "script", "iframe"}

\* HREF_ASSET_TAGS
HREF_ASSET_TAGS == {"link"}

\* A reference of a document: an element with one URL attribute (kind img,
\* script, iframe: src; kind link, a: href; kind body: background) or a
\* reference in a text (kind url: url(...); import: @import url(...);
\* import_str: @import "..."; js: a string literal of a script).  val is the
\* value as written, quoted whether it is written in quotes, arch whether
\* the inline text of a script mentions the archive.
Ref(kind, val) == [kind |-> kind, val |-> val, quoted |-> FALSE, arch |-> FALSE]

RefAttr(kind) ==
  IF kind \in SRC_ASSET_TAGS THEN "src"
  ELSE IF kind = "body" THEN "background"
  ELSE "href"

\* the unwrapping every scanner applies to an absolute reference: an archive
\* URL is parsed, anything else is kept
Unwrap(abs_url, ts) ==
  IF Contains(abs_url, S_web_archive_org)
  THEN With(parse_archive_url(abs_url), LAMBDA r :
         [ok |-> r.ok, ts |-> r.timestamp, url |-> r.original])
  ELSE [ok |-> TRUE, ts |-> ts, url |-> abs_url]

\* process_html, the loop over the script elements: whether s is removed
script_removed(ref, original_url) ==
  With(urljoin(original_url, ref.val), LAMBDA full :
  With(Unwrap(full, <<>>), LAMBDA un :
    \/ urlparse(IF un.ok THEN un.url ELSE full).netloc = S_web_static_archive_org
    \/ Contains(ref.val, S_archive_org)
    \/ Contains(ref.val, S_wayback)
    \/ ref.arch))

\* process_html, the loop over the link elements: whether l is removed
link_removed(ref, original_url) ==
  With(Unwrap(urljoin(original_url, ref.val), <<>>), LAMBDA un :
    un.ok /\ urlparse(un.url).netloc = S_web_static_archive_org)

\* prepare_asset(tag, attr, collection): what becomes of the element
\* ("keep": left as written, "drop": tag.decompose(), "queue": appended to
\* the collection with its URL and timestamp)
prepare_asset(ref, original_url, timestamp) ==
  IF ref.val = <<>> \/ StartsWith(ref.val, S_data)
  THEN [act |-> "keep", url |-> <<>>, ts |-> <<>>]
  ELSE
    With(IF StartsWith(ref.val, S_web)
         THEN ARCHIVE_ORIGIN \o ref.val
         ELSE urljoin(original_url, ref.val), LAMBDA abs :
    With(Unwrap(abs, timestamp), LAMBDA un :
      IF ~un.ok THEN [act |-> "drop", url |-> <<>>, ts |-> <<>>]
      ELSE IF urlparse(un.url).netloc = S_web_static_archive_org
      THEN [act |-> "drop", url |-> <<>>, ts |-> <<>>]
      ELSE IF StartsWith(un.url, S_http)
      THEN [act |-> "queue", url |-> un.url, ts |-> un.ts]
      ELSE [act |-> "keep", url |-> <<>>, ts |-> <<>>]))

\* process_html, the loop over the elements with a srcset (one candidate
\* each): the element is removed, or the candidate goes to process_asset
srcset_ref(ref, original_url, timestamp) ==
  With(IF StartsWith(ref.val, S_web)
       THEN ARCHIVE_ORIGIN \o ref.val
       ELSE urljoin(original_url, ref.val), LAMBDA abs :
  With(Unwrap(abs, timestamp), LAMBDA un :
    IF ~un.ok THEN [act |-> "drop", url |-> <<>>, ts |-> <<>>]
    ELSE IF urlparse(un.url).netloc = S_web_static_archive_org
    THEN [act |-> "drop", url |-> <<>>, ts |-> <<>>]
    ELSE [act |-> "resolve", url |-> un.url, ts |-> un.ts]))

\* rewrite_link(tag, attr): the new value of an anchor's href
rewrite_link(ref, original_url) ==
  IF ref.val = <<>> \/ StartsWith(ref.val, S_data) THEN ref.val
  ELSE
    With(IF StartsWith(ref.val, S_web)
         THEN ARCHIVE_ORIGIN \o ref.val
         ELSE urljoin(original_url, ref.val), LAMBDA abs :
    With(Unwrap(abs, <<>>), LAMBDA un :
      IF ~un.ok THEN abs
      ELSE With(urlparse(un.url), LAMBDA pa :
             IF pa.netloc = urlparse(original_url).netloc
             THEN clean_rel_path(pa.path)
                    \o (IF pa.query # <<>> THEN <<"?">> \o pa.query ELSE <<>>)
                    \o (IF pa.fragment # <<>> THEN <<"#">> \o pa.fragment ELSE <<>>)
             ELSE un.url)))

\* repl_url, repl_import of rewrite_css and repl of rewrite_js, up to the
\* call of process_asset: "keep" returns match.group(0), "call" resolves url
\* (at the timestamp of the text: the one parsed from the reference is dropped)
text_ref(ref, base_url, timestamp) ==
  IF StartsWith(ref.val, S_data) THEN [act |-> "keep", url |-> <<>>]
  ELSE
    With(IF StartsWith(ref.val, S_web)
         THEN urljoin(make_archive_url(timestamp, base_url, FALSE), ref.val)
         ELSE urljoin(base_url, ref.val), LAMBDA abs :
    With(Unwrap(abs, timestamp), LAMBDA un :
      IF ~un.ok THEN [act |-> "keep", url |-> <<>>]
      ELSE IF urlparse(un.url).netloc = S_web_static_archive_org
      THEN [act |-> "keep", url |-> <<>>]
      ELSE [act |-> "call", url |-> un.url]))

\* ------------------------------------------------------------------------
\* The archive: what the Wayback Machine holds for each modelled site
\* ------------------------------------------------------------------------

\* A resource of a site: its original URL, what its content is (html, css,
\* js, or bin for bytes with a NUL in them) and the references in it.
Res(url, content, refs) == [url |-> url, content |-> content, refs |-> refs]

SeedOf(orig) == ARCHIVE_PREFIX \o TS1 \o <<"/">> \o orig

\* img/b.png, as a stylesheet refers to an image beside it
R_img_b_png == <<"i", "m", "g", "/", "b">> \o S_dot_png

P_img_b_png == <<"/">> \o R_img_b_png

P_f_html == <<"/", "f">> \o S_dot_html

P_about == <<"/", "a", "b", "o", "u", "t">> \o S_dot_html

P_a == <<"/", "a">>

P_a_b_png == P_a \o <<"/", "b">> \o S_dot_png

\* a page at the root of its site that uses one image twice
WorldDup ==
  [seed |-> SeedOf(HostA \o P_index),
   res  |-> { Res(HostA \o P_index, "html",
                  << Ref("img", P_img_x_png), Ref("img", P_img_x_png),
                     Ref("a", P_about) >>),
              Res(HostA \o P_img_x_png, "bin", <<>>) }]

\* a page one directory down, with an image outside its directory, and a
\* stylesheet beside it that refers to the same image
WorldDeep ==
  [seed |-> SeedOf(HostA \o P_d_p_html),
   res  |-> { Res(HostA \o P_d_p_html, "html",
                  << Ref("img", P_img_x_png), Ref("link", Tail(P_s_css)) >>),
              Res(HostA \o P_img_x_png, "bin", <<>>),
              Res(HostA \o P_d_s_css, "css",
                  << Ref("url", <<".", ".">> \o P_img_x_png) >>) }]

\* a page whose references are written as archive URLs, with a script the
\* archive injected, a data: image and a stylesheet of the archive's own;
\* the page's script names a stylesheet it loads, which uses an image
WorldWrapped ==
  [seed |-> SeedOf(HostA \o P_index),
   res  |-> { Res(HostA \o P_index, "html",
                  << Ref("script", S_web \o TS2 \o <<"j", "s", "_", "/">> \o HostA \o P_a_js),
                     Ref("img", S_data \o <<"x">>),
                     Ref("link", S_https \o S_colon_slashes \o S_web_static_archive_org
                                   \o P_s_css),
                     [Ref("script", <<>>) EXCEPT !.arch = TRUE],
                     Ref("img", ARCHIVE_PREFIX \o <<"x">>) >>),
              Res(HostA \o P_a_js, "js",
                  << [Ref("js", Tail(P_s_css)) EXCEPT !.quoted = TRUE] >>),
              Res(HostA \o P_s_css, "css", << Ref("url", R_img_b_png) >>),
              Res(HostA \o P_img_b_png, "bin", <<>>) }]

\* a page with a stylesheet that imports another one and uses an image
WorldCss ==
  [seed |-> SeedOf(HostA \o P_index),
   res  |-> { Res(HostA \o P_index, "html", << Ref("link", P_s_css) >>),
              Res(HostA \o P_s_css, "css",
                  << Ref("import", P_d_s_css), Ref("url", R_img_b_png) >>),
              Res(HostA \o P_d_s_css, "css", <<>>),
              Res(HostA \o P_img_b_png, "bin", <<>>) }]

\* a page that embeds another page, which has an image of its own
WorldFrame ==
  [seed |-> SeedOf(HostA \o P_index),
   res  |-> { Res(HostA \o P_index, "html", << Ref("iframe", P_f_html) >>),
              Res(HostA \o P_f_html, "html", << Ref("img", P_x_png) >>),
              Res(HostA \o P_x_png, "bin", <<>>) }]

\* a page with images on two hosts under the same path
WorldHosts ==
  [seed |-> SeedOf(HostA \o P_index),
   res  |-> { Res(HostA \o P_index, "html",
                  << Ref("img", P_x_png), Ref("img", HostB \o P_x_png) >>),
              Res(HostA \o P_x_png, "bin", <<>>),
              Res(HostB \o P_x_png, "bin", <<>>) }]

\* a page with an image whose URL has no extension and a srcset candidate
\* one level below that URL
WorldSrcset ==
  [seed |-> SeedOf(HostA \o P_index),
   res  |-> { Res(HostA \o P_index, "html",
                  << Ref("img", P_a), Ref("srcset", P_a_b_png) >>),
              Res(HostA \o P_a, "bin", <<>>),
              Res(HostA \o P_a_b_png, "bin", <<>>) }]

\* a page one directory down that embeds a page of the site's root
WorldDeepFrame ==
  [seed |-> SeedOf(HostA \o P_d_p_html),
   res  |-> { Res(HostA \o P_d_p_html, "html", << Ref("iframe", P_f_html) >>),
              Res(HostA \o P_f_html, "html", <<>>) }]

\* a page with an inline image, written as a data: URI in a src attribute
\* and as a srcset candidate
WorldData ==
  [seed |-> SeedOf(HostA \o P_index),
   res  |-> { Res(HostA \o P_index, "html",
                  << Ref("img", S_data \o <<"x">>),
                     Ref("srcset", S_data \o <<"x">>) >>) }]

\* a page with a stylesheet that names its image by an archive URL of
\* another capture
WorldStamped ==
  [seed |-> SeedOf(HostA \o P_index),
   res  |-> { Res(HostA \o P_index, "html", << Ref("link", P_s_css) >>),
              Res(HostA \o P_s_css, "css",
                  << Ref("url", S_web \o TS2 \o <<"/">> \o HostA \o P_img_b_png) >>),
              Res(HostA \o P_img_b_png, "bin", <<>>) }]

P_i_svg == <<"/", "i">> \o S_dot_svg

\* a page with a vector image whose text holds url(, which makes
\* detect_file_type answer css
WorldSvg ==
  [seed |-> SeedOf(HostA \o P_index),
   res  |-> { Res(HostA \o P_index, "html", << Ref("img", P_i_svg) >>),
              Res(HostA \o P_i_svg, "css", <<>>) }]

\* a page that embeds itself
WorldSelf ==
  [seed |-> SeedOf(HostA \o P_index),
   res  |-> { Res(HostA \o P_index, "html", << Ref("iframe", P_index) >>) }]

\* seeds that are no snapshot URLs: the page's own URL, an archive URL with
\* no timestamp
WorldPlain == [seed |-> HostA \o P_index, res |-> {}]

WorldNoTs == [seed |-> ARCHIVE_PREFIX \o HostA \o P_index, res |-> {}]

Worlds ==
  << WorldDup, WorldDeep, WorldWrapped, WorldCss, WorldFrame, WorldHosts,
     WorldPlain, WorldNoTs, WorldSrcset, WorldDeepFrame, WorldData,
     WorldStamped, WorldSvg, WorldSelf >>

HasRes(w, url) == \E r \in Worlds[w].res : r.url = url

ResOf(w, url) == CHOOSE r \in Worlds[w].res : r.url = url

\* ------------------------------------------------------------------------
\* The output tree and the ledger
\* ------------------------------------------------------------------------

VARIABLES
  world,       \* the site being mirrored: an index of Worlds
  requested,   \* args.concurrency of main
  run,         \* the number of the download_page run against the output root
  dpc,         \* where download_page is
  dp,          \* the locals of download_page
  frames,      \* the calls of process_html and process_asset of this run
  files,       \* the output tree: path -> what was saved there
  ledgerFile,  \* the lines of .downloaded.txt
  downloaded,  \* the in-memory set of this run
  fetchCount,  \* per original URL, the process_asset calls of this run that fetched it
  netCalls,    \* the network calls of this run (fetch_url and the CDX lookup)
  files0,      \* the paths that existed when this run began
  ledger0,     \* the ledger lines when this run began
  pin,         \* the arguments of a pure function under test
  pop,         \* the pure function applied
  pout,        \* its result
  corrupt,     \* the disk writes of this run that will still read back wrong
  fu,          \* one call of fetch_url on its own
  mk,          \* threads calling mark_downloaded on one ledger
  era,         \* an EraRipDialog and its EraRipWorker
  batch        \* a BatchMainWindow and its BatchRipperWorker

mainVars ==
  << world, requested, run, dpc, dp, frames, files, ledgerFile, downloaded,
     fetchCount, netCalls, files0, ledger0, corrupt >>

pureVars == << pin, pop, pout >>

unitVars == << fu, mk, era, batch >>

vars == << mainVars, pureVars, unitVars >>

\* the proper prefixes of a sequence
ProperPrefixes(c) == {Take(c, n) : n \in 0..(Len(c) - 1)}

\* the directories of an output tree with the files ps: os.makedirs made
\* every ancestor of every saved file
Dirs(ps) == UNION {ProperPrefixes(PathComps(p)) \ {<<>>} : p \in ps}

\* os.path.isdir(path) in place of os.path.exists(path)
path_isdir(ps, path) == PathComps(path) \in Dirs(ps)

\* os.path.exists(path) in an output tree with the files ps
path_exists(ps, path) ==
  \/ normpath(path) \in ps
  \/ PathComps(path) \in Dirs(ps)

\* whether save_file(content, path) succeeds: os.makedirs fails when an
\* ancestor is a file, open fails when path is a directory
save_ok(ps, path) ==
  /\ ~EndsWith(path, <<"/">>)
  /\ PathComps(path) \notin Dirs(ps)
  /\ \A a \in ProperPrefixes(PathComps(path)) \ {<<>>} : Join(a, "/") \notin ps

\* save_file(content, path), when it succeeds
save_file(fs, path, content) ==
  [q \in DOMAIN fs \cup {normpath(path)} |->
     IF q = normpath(path) THEN content ELSE fs[q]]

\* load_downloaded(output_dir): the non-empty lines of the ledger file
load_downloaded(lines) == {lines[k] : k \in {j \in 1..Len(lines) : lines[j] # <<>>}}

\* mark_downloaded(output_dir, url, lock, downloaded), as one step under the
\* lock: the new set
mark_set(set, url) == set \cup {url}

\* a mark_downloaded that opens the ledger file with 'w'
mark_file_truncating(lines, set, url) == IF url \in set THEN lines ELSE << url >>

\* mark_downloaded: the new lines of the ledger file
mark_file(lines, set, url) == IF url \in set THEN lines ELSE Append(lines, url)

\* ------------------------------------------------------------------------
\* Calls: one frame per call of process_html or process_asset
\* ------------------------------------------------------------------------

\* MAX_CONCURRENCY = 3
MAX_CONCURRENCY == 3

\* MAX_RETRIES = 3
MAX_RETRIES == 3

\* the largest number of disk writes of one behaviour that read back wrong;
\* such writes are tried on runs with one worker
MaxCorrupt == 3

\* the largest -c value tried
MaxRequested == 4

\* the number of download_page runs against one output root
MaxRuns == 2

NoRet == [kind |-> "none", val |-> <<>>, ok |-> FALSE]

\* a returned string; ok tells a local path from the asset URL handed back
RetVal(v, ok) == [kind |-> "val", val |-> v, ok |-> ok]

\* a raised exception
RetExc == [kind |-> "exc", val |-> <<>>, ok |-> FALSE]

\* A frame.  fn: the function; url, ts: the resource and its timestamp;
\* dir: page_dir; local: local_path (page_local of process_html); parent,
\* slot: the calling frame and the reference resolved for it; mode: "top"
\* (called by download_page), "pool" (submitted to the executor of parent),
\* "inline" (called in the thread of parent); doc: the document being
\* rewritten; cur, pass: the reference and the pass of the rewriting loop;
\* attempt: the turn of the save loop; log: the last hash-mismatch line the
\* call logged; hist: what the save loop did so far; lines: the lines the
\* call wrote to the log, by log() in its own body and by the save_file and
\* fetch_url it called (fetch_url writes "Downloading" once per attempt,
\* entered here once per call).
Frame(fn, url, ts, dir, local, parent, slot, mode, pc, doc) ==
  [fn |-> fn, url |-> url, ts |-> ts, dir |-> dir, local |-> local,
   parent |-> parent, slot |-> slot, mode |-> mode, pc |-> pc, doc |-> doc,
   cur |-> 1, pass |-> 1, ftype |-> "none", tmp |-> <<>>, ret |-> NoRet,
   attempt |-> 1, log |-> "none", hist |-> <<>>, lines |-> <<>>]

\* an element or text reference of a document being rewritten
DocEntry(ref, st) ==
  [kind |-> ref.kind, val |-> ref.val, quoted |-> ref.quoted, arch |-> ref.arch,
   st |-> st]

\* the frame of process_asset(asset_url, page_dir, output_dir, ts, ...)
AssetFrame(url, ts, page_dir, parent, slot, mode) ==
  Frame("asset", url, ts, page_dir, compute_local_path(OUT, url, FALSE),
        parent, slot, mode, IF mode = "pool" THEN "queued" ELSE "check", <<>>)

\* the frame of process_html(html, original_url, timestamp, ...): page_local
\* and page_dir are computed from the page's URL
HtmlFrame(url, ts, refs, parent, mode) ==
  With(compute_local_path(OUT, url, TRUE), LAMBDA page_local :
    Frame("html", url, ts, dirname(page_local), page_local, parent, 0, mode,
          "prepare", [k \in 1..Len(refs) |-> DocEntry(refs[k], "kept")]))

\* the frames the executor of frame p was given
PoolChildren(frs, p) ==
  {c \in 1..Len(frs) : frs[c].parent = p /\ frs[c].mode = "pool"}

\* the workers of the executor of p that are running a task
Running(frs, p) ==
  {c \in PoolChildren(frs, p) : frs[c].pc \notin {"queued", "done", "applied"}}

\* A call returns or raises.  A pooled call leaves its result in the future;
\* an inline call hands it to its caller: a raised exception goes on in the
\* caller, the path of a nested page goes to the caller's mark_downloaded,
\* the result of a text reference is written back by repl / repl_url /
\* repl_import as clean_rel_path(...) in quotes, that of a srcset candidate
\* by process_html as clean_rel_path(...).
Complete(frs, i, ret) ==
  LET f    == frs[i]
      done == [f EXCEPT !.pc = "done", !.ret = ret]
  IN  IF f.mode # "inline" THEN [frs EXCEPT ![i] = done]
      ELSE
        LET p  == f.parent
            pf == frs[p]
            np == IF ret.kind = "exc" THEN [pf EXCEPT !.pc = "raise"]
                  ELSE IF f.fn = "html"
                  THEN [pf EXCEPT !.pc = "mark_html", !.tmp = ret.val]
                  ELSE IF pf.fn = "html"
                  THEN [pf EXCEPT !.pc = "srcset", !.cur = pf.cur + 1,
                                  !.doc[pf.cur] =
                                     [@ EXCEPT !.val = clean_rel_path(ret.val),
                                               !.st = IF ret.ok THEN "local"
                                                      ELSE "unresolved"]]
                  ELSE [pf EXCEPT !.pc = "rewrite", !.cur = pf.cur + 1,
                                  !.doc[pf.cur] =
                                     [@ EXCEPT !.val = clean_rel_path(ret.val),
                                               !.quoted = TRUE,
                                               !.st = IF ret.ok THEN "local"
                                                      ELSE "unresolved"]]
        IN  [frs EXCEPT ![i] = done, ![p] = np]

\* the extension process_asset reads off the URL
url_ext(url) == splitext(urlparse(url).path).ext

\* raw = ext in {'.css', '.js', '.html', '.htm'} or not ext
is_raw(url) == url_ext(url) \in {S_dot_css, S_dot_js, S_dot_html, S_dot_htm, <<>>}

\* TEXT_EXTS, as far as the modelled sites use them
TEXT_EXTS == {S_dot_css, S_dot_js, S_dot_html, S_dot_htm, S_dot_svg}

\* detect_file_type(text, ext) for text content; process_asset skips it for
\* content that is not text (is_text false)
detect_file_type(content, ext) ==
  IF ext \in {S_dot_html, S_dot_htm} THEN "html"
  ELSE IF ext = S_dot_css THEN "css"
  ELSE IF ext = S_dot_js THEN "js"
  ELSE IF content \in {"html", "css", "js"} THEN content
  ELSE "none"

\* the type process_asset treats fetched content as
asset_ftype(url, content) ==
  With(url_ext(url), LAMBDA ext :
    IF ext \in TEXT_EXTS \/ content # "bin"
    THEN detect_file_type(content, ext)
    ELSE "none")

\* ------------------------------------------------------------------------
\* main and download_page
\* ------------------------------------------------------------------------

Seed == Worlds[world].seed

\* one more process_asset call that went to the archive for url (the fetch
\* at the nearest snapshot, after a failed one, belongs to the same call)
CountFetch(fc, url) ==
  [u \in DOMAIN fc \cup {url} |->
     (IF u \in DOMAIN fc THEN fc[u] ELSE 0) + (IF u = url THEN 1 ELSE 0)]

\* how many process_asset calls fetched url in this run
Fetched(url) == IF url \in DOMAIN fetchCount THEN fetchCount[url] ELSE 0

\* main: conc = min(args.concurrency, MAX_CONCURRENCY);
\* download_page: timestamp, original_url = parse_archive_url(archive_url)
DP_Parse ==
  /\ dpc = "parse"
  /\ With(parse_archive_url(Seed), LAMBDA r :
       IF r.ok
       THEN /\ dpc' = "load"
            /\ dp' = [dp EXCEPT !.ts = r.timestamp, !.original = r.original,
                                !.concurrency = Min(requested, MAX_CONCURRENCY)]
       ELSE /\ dpc' = "raised"
            /\ UNCHANGED dp)
  /\ UNCHANGED << world, requested, run, frames, files, ledgerFile, downloaded,
                  fetchCount, netCalls, files0, ledger0, pureVars, unitVars, corrupt >>

\* download_page: downloaded = load_downloaded(output_dir)
DP_Load ==
  /\ dpc = "load"
  /\ downloaded' = load_downloaded(ledgerFile)
  /\ dpc' = "fetch"
  /\ UNCHANGED << world, requested, run, dp, frames, files, ledgerFile,
                  fetchCount, netCalls, files0, ledger0, pureVars, unitVars, corrupt >>

\* A download_page that enters the seed page in the ledger before it has
\* fetched it
DP_Fetch_marks_first ==
  /\ dpc = "fetch"
  /\ netCalls' = netCalls + 1
  /\ downloaded' = mark_set(downloaded, dp.original)
  /\ ledgerFile' = mark_file(ledgerFile, downloaded, dp.original)
  /\ \E ok \in BOOLEAN :
       /\ ok => HasRes(world, dp.original)
       /\ IF ok
          THEN /\ dpc' = "html"
               /\ frames' = << HtmlFrame(dp.original, dp.ts,
                                         ResOf(world, dp.original).refs, 0, "top") >>
          ELSE /\ dpc' = "raised"
               /\ UNCHANGED frames
  /\ UNCHANGED << world, requested, run, dp, files, fetchCount, files0, ledger0,
                  pureVars, unitVars, corrupt >>

\* download_page: html_bytes = fetch_url(html_url), which returns the page
\* or raises; then process_html is called
DP_Fetch ==
  /\ dpc = "fetch"
  /\ netCalls' = netCalls + 1
  /\ \E ok \in BOOLEAN :
       /\ ok => HasRes(world, dp.original)
       /\ IF ok
          THEN /\ dpc' = "html"
               /\ frames' = << HtmlFrame(dp.original, dp.ts,
                                         ResOf(world, dp.original).refs, 0, "top") >>
          ELSE /\ dpc' = "raised"
               /\ UNCHANGED frames
  /\ UNCHANGED << world, requested, run, dp, files, ledgerFile, downloaded,
                  fetchCount, files0, ledger0, pureVars, unitVars, corrupt >>

\* the -s values tried: none, a name without an extension, the name of the
\* stylesheet of the modelled sites
Savenames == { <<>>, <<"n">>, Tail(P_s_css) }

\* os.path.basename(p)
basename(p) == Drop(p, RFind(p, <<"/">>) + 1)

\* download_page, the final filename: root + ext of savename, the extension
\* of the saved page or '.html' when savename has none, in the folder of
\* the saved page
final_path_of(local_page, savename) ==
  With(splitext(savename), LAMBDA se :
  With(IF se.ext # <<>> THEN se.ext
       ELSE IF splitext(local_page).ext # <<>> THEN splitext(local_page).ext
       ELSE S_dot_html, LAMBDA ext :
    path_join(dirname(local_page), basename(se.base \o ext))))

\* os.replace(src, dst), when it succeeds
os_replace(fs, src, dst) ==
  [q \in (DOMAIN fs \ {normpath(src)}) \cup {normpath(dst)} |->
     IF q = normpath(dst) THEN fs[normpath(src)] ELSE fs[q]]

\* download_page returns local_page, or the exception of process_html goes
\* on to the caller; with a savename the saved page is renamed first, and
\* os.replace raises when the new name is a directory
DP_Return ==
  /\ dpc = "html"
  /\ frames[1].pc = "done"
  /\ IF frames[1].ret.kind # "val"
     THEN /\ dpc' = "raised"
          /\ UNCHANGED << dp, files >>
     ELSE IF dp.savename = <<>>
     THEN /\ dpc' = "done"
          /\ dp' = [dp EXCEPT !.local_page = frames[1].ret.val]
          /\ UNCHANGED files
     ELSE With(final_path_of(frames[1].ret.val, dp.savename), LAMBDA final_path :
            IF PathComps(final_path) \in Dirs(DOMAIN files)
            THEN /\ dpc' = "raised"
                 /\ UNCHANGED << dp, files >>
            ELSE /\ dpc' = "done"
                 /\ dp' = [dp EXCEPT !.local_page = final_path]
                 /\ files' = os_replace(files, frames[1].ret.val, final_path))
  /\ UNCHANGED << world, requested, run, frames, ledgerFile, downloaded,
                  fetchCount, netCalls, files0, ledger0, pureVars, unitVars, corrupt >>

NoLocals ==
  [ts |-> <<>>, original |-> <<>>, concurrency |-> 0, local_page |-> <<>>,
   savename |-> <<>>]

\* the program is run again on the same URL and output directory; with
\* --reset main removes the ledger file first. The disk reads back wrong
\* in the first run only: a later run meets no fault
Rerun ==
  /\ dpc \in {"done", "raised"}
  /\ run < MaxRuns
  /\ run' = run + 1
  /\ \E reset \in BOOLEAN :
       /\ ledgerFile' = IF reset THEN <<>> ELSE ledgerFile
       /\ ledger0' = IF reset THEN {} ELSE load_downloaded(ledgerFile)
  /\ files0' = DOMAIN files
  /\ dpc' = "parse"
  /\ dp' = [NoLocals EXCEPT !.savename = dp.savename]
  /\ frames' = <<>>
  /\ downloaded' = {}
  /\ fetchCount' = <<>>
  /\ netCalls' = 0
  /\ corrupt' = 0
  /\ UNCHANGED << world, requested, files, pureVars, unitVars >>

\* ------------------------------------------------------------------------
\* process_html
\* ------------------------------------------------------------------------

\* what process_html does with element e before any asset is resolved
prepared(e, original_url, timestamp) ==
  IF e.kind = "script" /\ script_removed(e, original_url)
  THEN [act |-> "drop", url |-> <<>>, ts |-> <<>>]
  ELSE IF e.kind = "link" /\ link_removed(e, original_url)
  THEN [act |-> "drop", url |-> <<>>, ts |-> <<>>]
  ELSE IF e.kind \in SRC_ASSET_TAGS \cup {"body"} \cup HREF_ASSET_TAGS
  THEN prepare_asset(e, original_url, timestamp)
  ELSE IF e.kind = "a"
  THEN [act |-> "link", url |-> rewrite_link(e, original_url), ts |-> <<>>]
  ELSE [act |-> "keep", url |-> <<>>, ts |-> <<>>]

\* the positions from k on of the elements of doc whose kind is in kinds
RECURSIVE IndicesOf(_, _, _)
IndicesOf(doc, kinds, k) ==
  IF k > Len(doc) THEN <<>>
  ELSE IF doc[k].kind \in kinds THEN <<k>> \o IndicesOf(doc, kinds, k + 1)
  ELSE IndicesOf(doc, kinds, k + 1)

\* the order in which process_html collects the assets: the elements with a
\* src, those with a background, those with an href
AssetOrder(doc) ==
  IndicesOf(doc, SRC_ASSET_TAGS, 1) \o IndicesOf(doc, {"body"}, 1)
    \o IndicesOf(doc, HREF_ASSET_TAGS, 1)

\* process_html after the executor: the loop over the elements with a
\* srcset, which does nothing in a document that has none
after_pool(doc) == IF IndicesOf(doc, {"srcset"}, 1) = <<>> THEN "write" ELSE "srcset"

\* the deepest nesting of process_html calls that is followed
MaxDepth == 3

\* the process_html calls that call i is nested in, itself included
RECURSIVE HtmlDepth(_, _)
HtmlDepth(frs, i) ==
  IF i = 0 THEN 0
  ELSE (IF frs[i].fn = "html" THEN 1 ELSE 0) + HtmlDepth(frs, frs[i].parent)

\* process_html up to the executor: the archive's elements are removed, the
\* assets collected, the anchors rewritten, and every asset submitted.
\* ThreadPoolExecutor raises ValueError for max_workers <= 0.
HtmlPrepare(i) ==
  /\ frames[i].fn = "html"
  /\ frames[i].pc = "prepare"
  /\ HtmlDepth(frames, i) <= MaxDepth
  /\ LET f == frames[i]
     IN  With([k \in 1..Len(f.doc) |-> prepared(f.doc[k], f.url, f.ts)], LAMBDA prep :
         With([k \in 1..Len(f.doc) |->
                 IF prep[k].act = "drop" THEN [f.doc[k] EXCEPT !.st = "dropped"]
                 ELSE IF prep[k].act = "queue" THEN [f.doc[k] EXCEPT !.st = "queued"]
                 ELSE IF prep[k].act = "link"
                 THEN [f.doc[k] EXCEPT !.st = "link", !.val = prep[k].url]
                 ELSE f.doc[k]], LAMBDA doc1 :
         With(SelectSeq(AssetOrder(f.doc), LAMBDA k : prep[k].act = "queue"),
              LAMBDA order :
           frames' =
             IF order = <<>>
             THEN [frames EXCEPT ![i] = [f EXCEPT !.doc = doc1, !.pc = after_pool(doc1)]]
             ELSE IF dp.concurrency <= 0
             THEN [frames EXCEPT ![i] = [f EXCEPT !.doc = doc1, !.pc = "raise"]]
             ELSE [frames EXCEPT ![i] = [f EXCEPT !.doc = doc1, !.pc = "pool"]]
                    \o [j \in 1..Len(order) |->
                          AssetFrame(prep[order[j]].url, prep[order[j]].ts, f.dir,
                                     i, order[j], "pool")])))
  /\ UNCHANGED << world, requested, run, dpc, dp, files, ledgerFile, downloaded,
                  fetchCount, netCalls, files0, ledger0, pureVars, unitVars, corrupt >>

\* a worker of the executor takes the next task of the queue
AssetStart(c) ==
  /\ frames[c].pc = "queued"
  /\ \A b \in PoolChildren(frames, frames[c].parent) : frames[b].pc = "queued" => c <= b
  /\ Cardinality(Running(frames, frames[c].parent)) < dp.concurrency
  /\ frames' = [frames EXCEPT ![c].pc = "check"]
  /\ UNCHANGED << world, requested, run, dpc, dp, files, ledgerFile, downloaded,
                  fetchCount, netCalls, files0, ledger0, pureVars, unitVars, corrupt >>

\* A process_html that leaves the with block at the first finished future:
\* the result is applied and the page goes on to be written.
HtmlApply_first_completed(c) ==
  /\ frames[c].mode = "pool"
  /\ frames[c].pc = "done"
  /\ LET p == frames[c].parent
         r == frames[c].ret
     IN  frames' =
           [frames EXCEPT
              ![c].pc = "applied",
              ![p].pc = "write",
              ![p].doc[frames[c].slot] =
                 IF r.kind = "val"
                 THEN [@ EXCEPT !.val = clean_rel_path(r.val),
                                !.st = IF r.ok THEN "local" ELSE "unresolved"]
                 ELSE [@ EXCEPT !.st = "dropped"]]
  /\ UNCHANGED << world, requested, run, dpc, dp, files, ledgerFile, downloaded,
                  fetchCount, netCalls, files0, ledger0, pureVars, unitVars, corrupt >>

\* as_completed hands a finished future to process_html:
\* tag[attr] = clean_rel_path(fut.result()), or tag.decompose() when the
\* worker raised; after the last one the with block ends
HtmlApply(c) ==
  /\ frames[c].mode = "pool"
  /\ frames[c].pc = "done"
  /\ LET p    == frames[c].parent
         r    == frames[c].ret
         last == \A b \in PoolChildren(frames, p) \ {c} : frames[b].pc = "applied"
     IN  frames' =
           [frames EXCEPT
              ![c].pc = "applied",
              ![p].pc = IF last THEN after_pool(frames[p].doc) ELSE "pool",
              ![p].doc[frames[c].slot] =
                 IF r.kind = "val"
                 THEN [@ EXCEPT !.val = clean_rel_path(r.val),
                                !.st = IF r.ok THEN "local" ELSE "unresolved"]
                 ELSE [@ EXCEPT !.st = "dropped"]]
  /\ UNCHANGED << world, requested, run, dpc, dp, files, ledgerFile, downloaded,
                  fetchCount, netCalls, files0, ledger0, pureVars, unitVars, corrupt >>

\* process_html, the srcset loop: process_asset is called in the thread of
\* process_html, outside any try statement
HtmlSrcset(i) ==
  /\ frames[i].fn = "html"
  /\ frames[i].pc = "srcset"
  /\ LET f == frames[i]
     IN  frames' =
           IF f.cur > Len(f.doc)
           THEN [frames EXCEPT ![i].pc = "write"]
           ELSE IF f.doc[f.cur].kind # "srcset"
           THEN [frames EXCEPT ![i].cur = f.cur + 1]
           ELSE With(srcset_ref(f.doc[f.cur], f.url, f.ts), LAMBDA r :
                  IF r.act = "drop"
                  THEN [frames EXCEPT ![i].cur = f.cur + 1,
                                      ![i].doc[f.cur].st = "dropped"]
                  ELSE [frames EXCEPT ![i].pc = "wait"]
                         \o << AssetFrame(r.url, r.ts, f.dir, i, f.cur, "inline") >>)
  /\ UNCHANGED << world, requested, run, dpc, dp, files, ledgerFile, downloaded,
                  fetchCount, netCalls, files0, ledger0, pureVars, unitVars, corrupt >>

\* process_html: the document is serialised and saved under page_local
HtmlWrite(i) ==
  /\ frames[i].fn = "html"
  /\ frames[i].pc = "write"
  /\ LET f == frames[i]
     IN  IF save_ok(DOMAIN files, f.local)
         THEN /\ files' = save_file(files, f.local,
                                   [src |-> f.url, doc |-> f.doc, intact |-> TRUE])
              /\ frames' = Complete([frames EXCEPT ![i].lines = Append(@, "Saved")],
                                     i, RetVal(f.local, TRUE))
         ELSE /\ frames' = Complete(frames, i, RetExc)
              /\ UNCHANGED files
  /\ UNCHANGED << world, requested, run, dpc, dp, ledgerFile, downloaded,
                  fetchCount, netCalls, files0, ledger0, pureVars, unitVars, corrupt >>

\* an exception leaves the call
Raise(i) ==
  /\ frames[i].pc = "raise"
  /\ frames' = Complete(frames, i, RetExc)
  /\ UNCHANGED << world, requested, run, dpc, dp, files, ledgerFile, downloaded,
                  fetchCount, netCalls, files0, ledger0, pureVars, unitVars, corrupt >>

\* ------------------------------------------------------------------------
\* process_asset, rewrite_css, rewrite_js
\* ------------------------------------------------------------------------

\* process_asset, the three early returns: the URL is in the set, or the
\* HTML-coerced path or the plain path exists (then the URL is marked)
AssetCheck(i) ==
  /\ frames[i].fn = "asset"
  /\ frames[i].pc = "check"
  /\ LET f == frames[i]
     IN  With(compute_local_path(OUT, f.url, TRUE), LAMBDA html_path :
         With(path_exists(DOMAIN files, html_path), LAMBDA has_html :
         With(path_exists(DOMAIN files, f.local), LAMBDA has_local :
         With(clean_rel_path(relpath(IF has_html THEN html_path ELSE f.local, f.dir)),
              LAMBDA rel :
           IF f.url \in downloaded
           THEN /\ frames' = Complete(frames, i, RetVal(rel, TRUE))
                /\ UNCHANGED << downloaded, ledgerFile >>
           ELSE IF has_html \/ has_local
           THEN /\ frames' = Complete(frames, i, RetVal(rel, TRUE))
                /\ downloaded' = mark_set(downloaded, f.url)
                /\ ledgerFile' = mark_file(ledgerFile, downloaded, f.url)
           ELSE /\ frames' = [frames EXCEPT ![i].pc = "fetch",
                                             ![i].lines = Append(@, "Fetching asset")]
                /\ UNCHANGED << downloaded, ledgerFile >>))))
  /\ UNCHANGED << world, requested, run, dpc, dp, files, fetchCount, netCalls,
                  files0, ledger0, pureVars, unitVars, corrupt >>

\* process_asset after a fetch returned data: HTML goes through
\* process_html, CSS and JavaScript are rewritten, anything else is saved
AfterData(frs, i) ==
  LET f == frs[i]
      r == ResOf(world, f.url)
  IN  With(asset_ftype(f.url, r.content), LAMBDA ft :
        IF ft = "html"
        THEN [frs EXCEPT ![i].pc = "wait", ![i].ftype = ft]
               \o << HtmlFrame(f.url, f.ts, r.refs, i, "inline") >>
        ELSE IF ft \in {"css", "js"}
        THEN [frs EXCEPT ![i].pc = "rewrite", ![i].ftype = ft,
                         ![i].doc = [k \in 1..Len(r.refs) |-> DocEntry(r.refs[k], "kept")]]
        ELSE [frs EXCEPT ![i].pc = "save"])

\* process_asset: data = fetch_url(archive_url), which returns or raises
AssetFetch(i) ==
  /\ frames[i].pc = "fetch"
  /\ fetchCount' = CountFetch(fetchCount, frames[i].url)
  /\ netCalls' = netCalls + 1
  /\ \E ok \in BOOLEAN :
       /\ ok => HasRes(world, frames[i].url)
       /\ frames' = IF ok
                    THEN AfterData([frames EXCEPT ![i].lines = Append(@, "Downloading")], i)
                    ELSE [frames EXCEPT ![i].pc = "nearest",
                                        ![i].lines = @ \o << "Downloading", "Failed to fetch" >>]
  /\ UNCHANGED << world, requested, run, dpc, dp, files, ledgerFile, downloaded,
                  files0, ledger0, pureVars, unitVars, corrupt >>

\* the timestamps the CDX lookup can answer with
Snapshots == {TS1, TS2}

\* a process_asset that tries whatever snapshot the lookup names
nearest_any(nearest, asset_timestamp) == nearest # <<>>

\* process_asset: if nearest and nearest != asset_timestamp
nearest_differs(nearest, asset_timestamp) ==
  nearest # <<>> /\ nearest # asset_timestamp

\* process_asset: nearest = find_nearest_snapshot(original, asset_timestamp),
\* which answers with a timestamp or, after any failure, with None (here
\* <<>>); with no other snapshot the asset URL is returned as it is
AssetNearest(i) ==
  /\ frames[i].pc = "nearest"
  /\ netCalls' = netCalls + 1
  /\ \E nearest \in Snapshots \cup {<<>>} :
       frames' = IF nearest_differs(nearest, frames[i].ts)
                 THEN [frames EXCEPT ![i].pc = "refetch", ![i].tmp = nearest,
                                     ![i].lines = Append(@, "Retrying")]
                 ELSE Complete(frames, i, RetVal(frames[i].url, FALSE))
  /\ UNCHANGED << world, requested, run, dpc, dp, files, ledgerFile, downloaded,
                  fetchCount, files0, ledger0, pureVars, unitVars, corrupt >>

\* process_asset: the fetch at the nearest snapshot
AssetRefetch(i) ==
  /\ frames[i].pc = "refetch"
  /\ netCalls' = netCalls + 1
  /\ \E ok \in BOOLEAN :
       /\ ok => HasRes(world, frames[i].url)
       /\ frames' = IF ok
                    THEN AfterData([frames EXCEPT ![i].tmp = <<>>,
                                                  ![i].lines = Append(@, "Downloading")], i)
                    ELSE Complete([frames EXCEPT ![i].lines =
                                     @ \o << "Downloading", "Failed alternate snapshot" >>],
                                  i, RetVal(frames[i].url, FALSE))
  /\ UNCHANGED << world, requested, run, dpc, dp, files, ledgerFile, downloaded,
                  fetchCount, files0, ledger0, pureVars, unitVars, corrupt >>

\* whether the pass of the rewriter matches the reference: CSS_URL_RE
\* matches url(...), also that of an @import; CSS_IMPORT_RE matches an
\* @import whose target is in quotes; JS_URL_RE matches a string literal
ref_matches(ftype, pass, ref) ==
  \/ ftype = "css" /\ pass = 1 /\ ref.kind \in {"url", "import"}
  \/ ftype = "css" /\ pass = 2 /\ ref.kind \in {"import", "import_str"} /\ ref.quoted
  \/ ftype = "js" /\ pass = 1 /\ ref.kind = "js" /\ ref.quoted

\* rewrite_css runs two substitutions over the text, rewrite_js one (the
\* modelled scripts have nothing scan_dynamic_js matches)
passes(ftype) == IF ftype = "css" THEN 2 ELSE 1

\* rewrite_css / rewrite_js: the next match of the substitution; a resolved
\* reference calls process_asset with the directory of the file as page_dir
AssetRewrite(i) ==
  /\ frames[i].pc = "rewrite"
  /\ LET f == frames[i]
     IN  frames' =
           IF f.cur > Len(f.doc)
           THEN IF f.pass < passes(f.ftype)
                THEN [frames EXCEPT ![i].pass = f.pass + 1, ![i].cur = 1]
                ELSE [frames EXCEPT ![i].pc = "save"]
           ELSE IF ~ref_matches(f.ftype, f.pass, f.doc[f.cur])
           THEN [frames EXCEPT ![i].cur = f.cur + 1]
           ELSE With(text_ref(f.doc[f.cur], f.url, f.ts), LAMBDA r :
                  IF r.act = "keep"
                  THEN [frames EXCEPT ![i].cur = f.cur + 1]
                  ELSE [frames EXCEPT ![i].pc = "wait"]
                         \o << AssetFrame(r.url, f.ts, dirname(f.local), i, f.cur,
                                          "inline") >>)
  /\ UNCHANGED << world, requested, run, dpc, dp, files, ledgerFile, downloaded,
                  fetchCount, netCalls, files0, ledger0, pureVars, unitVars, corrupt >>

\* what is left of process_asset's data when fetch_url fetched it again
\* inside the save loop: the bytes of the archive, not rewritten
raw_doc(f) ==
  IF f.ftype \in {"css", "js"}
  THEN [k \in 1..Len(ResOf(world, f.url).refs) |->
          DocEntry(ResOf(world, f.url).refs[k], "kept")]
  ELSE <<>>

\* a save loop that goes on after MAX_RETRIES mismatches
verify_never_gives_up(attempt) == FALSE

\* process_asset, the save loop: if attempt == MAX_RETRIES
verify_gives_up(attempt) == attempt = MAX_RETRIES

\* process_asset, the save loop after save_file: the hashes are compared;
\* bad tells that the bytes read back are not the bytes written
verify(f, bad) ==
  IF ~bad
  THEN [f EXCEPT !.pc = "mark", !.hist = Append(@, "intact"),
                 !.lines = Append(@, "Saved")]
  ELSE IF verify_gives_up(f.attempt)
  THEN [f EXCEPT !.pc = "mark", !.hist = Append(@, "mismatch"), !.log = "giving up",
                 !.lines = @ \o << "Saved", "Hash mismatch" >>]
  ELSE [f EXCEPT !.pc = "verify_fetch", !.hist = Append(@, "mismatch"),
                 !.log = "retrying", !.lines = @ \o << "Saved", "Hash mismatch" >>]

\* process_asset: save_file(data, local_path) and the comparison of the
\* hash of data with the hash of the bytes read back
AssetSave(i) ==
  /\ frames[i].pc = "save"
  /\ LET f == frames[i]
     IN  IF save_ok(DOMAIN files, f.local)
         THEN \E bad \in BOOLEAN :
                /\ bad => corrupt > 0
                /\ corrupt' = IF bad THEN corrupt - 1 ELSE corrupt
                /\ files' = save_file(files, f.local,
                                      [src |-> f.url, doc |-> f.doc, intact |-> ~bad])
                /\ frames' = [frames EXCEPT ![i] = verify(f, bad)]
         ELSE /\ frames' = [frames EXCEPT ![i].pc = "raise"]
              /\ UNCHANGED << files, corrupt >>
  /\ UNCHANGED << world, requested, run, dpc, dp, ledgerFile, downloaded,
                  fetchCount, netCalls, files0, ledger0, pureVars, unitVars >>

\* a save loop that lets the exception of fetch_url out
verify_fetch_raises(f) ==
  [f EXCEPT !.pc = "raise", !.hist = Append(@, "fetch_failed"),
            !.lines = Append(@, "Downloading")]

\* process_asset, the save loop: except Exception: break
verify_fetch_failed(f) ==
  [f EXCEPT !.pc = "mark", !.hist = Append(@, "fetch_failed"),
            !.lines = Append(@, "Downloading")]

\* process_asset, the save loop after a mismatch: time.sleep(RETRY_DELAY);
\* data = fetch_url(archive_url), then the next turn of the loop
AssetVerifyFetch(i) ==
  /\ frames[i].pc = "verify_fetch"
  /\ netCalls' = netCalls + 1
  /\ \E ok \in BOOLEAN :
       frames' = [frames EXCEPT ![i] =
                    IF ok
                    THEN [@ EXCEPT !.pc = "save", !.attempt = @ + 1,
                                   !.doc = raw_doc(frames[i]),
                                   !.hist = Append(@, "fetched"),
                                   !.lines = Append(@, "Downloading")]
                    ELSE verify_fetch_failed(@)]
  /\ UNCHANGED << world, requested, run, dpc, dp, files, ledgerFile, downloaded,
                  fetchCount, files0, ledger0, pureVars, unitVars, corrupt >>

\* A process_asset that hands back the snapshot URL of the asset it saved
AssetMark_archive_url(i) ==
  /\ frames[i].pc \in {"mark", "mark_html"}
  /\ frames' = Complete(frames, i,
                        RetVal(make_archive_url(frames[i].ts, frames[i].url, FALSE), TRUE))
  /\ downloaded' = mark_set(downloaded, frames[i].url)
  /\ ledgerFile' = mark_file(ledgerFile, downloaded, frames[i].url)
  /\ UNCHANGED << world, requested, run, dpc, dp, files, fetchCount, netCalls,
                  files0, ledger0, pureVars, unitVars, corrupt >>

\* process_asset: mark_downloaded, then the path of the saved file (after
\* process_html: of the nested page) relative to page_dir is returned
AssetMark(i) ==
  /\ frames[i].pc \in {"mark", "mark_html"}
  /\ LET f     == frames[i]
         saved == IF f.pc = "mark_html" THEN f.tmp ELSE f.local
     IN  frames' = Complete(frames, i, RetVal(clean_rel_path(relpath(saved, f.dir)), TRUE))
  /\ downloaded' = mark_set(downloaded, frames[i].url)
  /\ ledgerFile' = mark_file(ledgerFile, downloaded, frames[i].url)
  /\ UNCHANGED << world, requested, run, dpc, dp, files, fetchCount, netCalls,
                  files0, ledger0, pureVars, unitVars, corrupt >>

\* ------------------------------------------------------------------------
\* The specification of a mirror run
\* ------------------------------------------------------------------------

PureOff == /\ pin = <<>> /\ pop = "off" /\ pout = <<>>

GuiOff == /\ era = [pc |-> "off"] /\ batch = [pc |-> "off"]

UnitOff == /\ fu = [pc |-> "off"] /\ mk = [pc |-> "off"] /\ GuiOff

Init ==
  /\ world \in 1..Len(Worlds)
  /\ requested \in 0..MaxRequested
  /\ corrupt \in {0, MaxCorrupt}
  /\ corrupt > 0 => requested = 1
  /\ run = 1
  /\ dpc = "parse"
  /\ dp \in {[NoLocals EXCEPT !.savename = s] : s \in Savenames}
  /\ dp.savename # <<>> => (requested = 1 /\ corrupt = 0)
  /\ frames = <<>>
  /\ files = <<>>
  /\ ledgerFile = <<>>
  /\ downloaded = {}
  /\ fetchCount = <<>>
  /\ netCalls = 0
  /\ files0 = {}
  /\ ledger0 = {}
  /\ PureOff
  /\ UnitOff

Next ==
  \/ DP_Parse
  \/ DP_Load
  \/ DP_Fetch
  \/ DP_Return
  \/ Rerun
  \/ \E i \in 1..Len(frames) : HtmlPrepare(i)
  \/ \E i \in 1..Len(frames) : AssetStart(i)
  \/ \E i \in 1..Len(frames) : HtmlApply(i)
  \/ \E i \in 1..Len(frames) : HtmlSrcset(i)
  \/ \E i \in 1..Len(frames) : HtmlWrite(i)
  \/ \E i \in 1..Len(frames) : Raise(i)
  \/ \E i \in 1..Len(frames) : AssetCheck(i)
  \/ \E i \in 1..Len(frames) : AssetFetch(i)
  \/ \E i \in 1..Len(frames) : AssetNearest(i)
  \/ \E i \in 1..Len(frames) : AssetRefetch(i)
  \/ \E i \in 1..Len(frames) : AssetRewrite(i)
  \/ \E i \in 1..Len(frames) : AssetSave(i)
  \/ \E i \in 1..Len(frames) : AssetVerifyFetch(i)
  \/ \E i \in 1..Len(frames) : AssetMark(i)

Spec == Init /\ [][Next]_vars

\* ------------------------------------------------------------------------
\* The specification of the pure functions: the arguments are drawn, then
\* one function is applied to them
\* ------------------------------------------------------------------------

MainOff ==
  /\ world = 1 /\ requested = 1 /\ run = 1 /\ dpc = "off" /\ dp = NoLocals
  /\ frames = <<>> /\ files = <<>> /\ ledgerFile = <<>> /\ downloaded = {}
  /\ fetchCount = <<>> /\ netCalls = 0 /\ files0 = {} /\ ledger0 = {}
  /\ corrupt = 0

InitPure ==
  /\ MainOff
  /\ UnitOff
  /\ pop = "none"
  /\ pout = <<>>
  /\ pin \in [ts : {TS1, TS2}, orig : PureUrls, other : PureUrls, url : ParseInputs]

\* parse_archive_url(make_archive_url(ts, orig, raw=False))
ApplyRoundTrip ==
  /\ pop = "none"
  /\ pop' = "roundtrip"
  /\ pout' = parse_archive_url(make_archive_url(pin.ts, pin.orig, FALSE))
  /\ UNCHANGED << pin, mainVars, unitVars >>

\* parse_archive_url(url)
ApplyParse ==
  /\ pop = "none"
  /\ pop' = "parse"
  /\ pout' = parse_archive_url(pin.url)
  /\ UNCHANGED << pin, mainVars, unitVars >>

\* compute_local_path(output_dir, url) of two URLs
ApplyLocalPath ==
  /\ pop = "none"
  /\ pop' = "localpath"
  /\ pout' = << compute_local_path(OUT, pin.orig, FALSE),
                compute_local_path(OUT, pin.other, FALSE) >>
  /\ UNCHANGED << pin, mainVars, unitVars >>

NextPure == ApplyRoundTrip \/ ApplyParse \/ ApplyLocalPath

SpecPure == InitPure /\ [][NextPure]_vars

\* ------------------------------------------------------------------------
\* Claims
\* ------------------------------------------------------------------------

\* whether v is an absolute http or https URL
IsAbsoluteUrl(v) ==
  \/ StartsWith(v, S_http \o S_colon_slashes) /\ Len(v) > Len(S_http \o S_colon_slashes)
  \/ StartsWith(v, S_https \o S_colon_slashes) /\ Len(v) > Len(S_https \o S_colon_slashes)

\* C1: for every timestamp ts and original URL orig,
\* parse_archive_url(make_archive_url(ts, orig, raw=False)) returns (ts, orig),
\* also when orig contains a later occurrence of 'http'.
C1_RoundTrip ==
  pop = "roundtrip" =>
    pout = [ok |-> TRUE, timestamp |-> pin.ts, original |-> pin.orig]

\* C3: whenever parse_archive_url returns, the timestamp is a 14-digit string
\* and the original URL is an absolute URL; every other input is rejected.
C3_ParsedIsWellFormed ==
  (pop = "parse" /\ pout.ok) =>
    /\ Len(pout.timestamp) = 14
    /\ \A k \in 1..Len(pout.timestamp) : pout.timestamp[k] \in Digits
    /\ IsAbsoluteUrl(pout.original)

\* C4: compute_local_path is injective on URLs: two distinct URLs (differing
\* in host, path, or only in query string) map to distinct paths within one
\* output root.
C4_LocalPathInjective ==
  (pop = "localpath" /\ pin.orig # pin.other) => pout[1] # pout[2]

\* whether url has a /web/<timestamp>/ segment (a modifier may follow the
\* timestamp)
HasSnapshotSegment(url) ==
  \E i \in Occurrences(url, S_web) :
    With(Drop(url, i + Len(S_web)), LAMBDA tail :
      SpanLen(tail, Digits) > 0 /\ Contains(tail, <<"/">>))

\* C2: when download_page is called with a URL that lacks the
\* /web/<timestamp>/ segment, it raises before any network call is made,
\* before the ledger is loaded and before any file is written: it never gets
\* past the parse, and nothing of the run's state has changed.
C2_MalformedFailsFast ==
  ~HasSnapshotSegment(Seed) =>
    /\ dpc \in {"parse", "raised"}
    /\ netCalls = 0
    /\ frames = <<>>
    /\ downloaded = {}
    /\ DOMAIN files = files0
    /\ ledgerFile = <<>>

\* C2 witness: download_page has raised on a seed without the segment.
C2_Witness == ~HasSnapshotSegment(Seed) /\ dpc = "raised"

\* C5: within one download_page run, no asset URL is fetched from the
\* archive more than once, for every pool size and whether the fetch
\* succeeds or fails: at most one process_asset call goes to the archive
\* for it.
C5_FetchedAtMostOnce == \A u \in DOMAIN fetchCount : fetchCount[u] <= 1

\* whether the asset url was in the ledger or on disk when the run began
KnownAtStart(url) ==
  \/ url \in ledger0
  \/ normpath(compute_local_path(OUT, url, FALSE)) \in files0
  \/ normpath(compute_local_path(OUT, url, TRUE)) \in files0

\* C6: in a second run against the same output root, process_asset fetches
\* no asset URL that was in the ledger or whose local file existed when the
\* run began.
C6_NoRefetchOnRerun ==
  run >= 2 => \A u \in DOMAIN fetchCount : ~KnownAtStart(u)

\* C6 witness: in a second run, after --reset, process_asset has returned for
\* an asset that was on disk but not in the ledger, and did not fetch it; and
\* has fetched another asset that was absent from both.
C6_Witness ==
  /\ run = 2
  /\ \E i \in 1..Len(frames) :
       /\ frames[i].fn = "asset"
       /\ frames[i].pc \in {"done", "applied"}
       /\ frames[i].url \notin ledger0
       /\ KnownAtStart(frames[i].url)
       /\ Fetched(frames[i].url) = 0
  /\ \E u \in DOMAIN fetchCount : fetchCount[u] > 0

\* the document download_page saved as the top-level page
SavedPage == files[normpath(dp.local_page)].doc

\* C7: after download_page returns, every attribute value that was
\* substituted with a local path, resolved relative to the directory of the
\* saved page, names a file that exists under the output root, at any
\* directory depth of the page.
C7_SubstitutedPathsExist ==
  dpc = "done" =>
    \A k \in 1..Len(SavedPage) :
      SavedPage[k].st = "local" =>
        normpath(path_join(dirname(dp.local_page), SavedPage[k].val)) \in DOMAIN files

\* whether v is an absolute URL on the archive host
IsArchiveUrl(v) == IsAbsoluteUrl(v) /\ urlparse(v).netloc = S_web_archive_org

\* the documents being rewritten and the documents saved
AllDocs ==
  {frames[i].doc : i \in 1..Len(frames)} \cup {files[q].doc : q \in DOMAIN files}

\* C8: for every reference process_asset resolved successfully, the text
\* written back by process_html, rewrite_css and rewrite_js is never an
\* absolute URL on the archive host.
C8_NoArchiveUrlWrittenBack ==
  \A d \in AllDocs : \A k \in 1..Len(d) :
    d[k].st = "local" => ~IsArchiveUrl(d[k].val)

\* C8 witness: a page, a stylesheet and a script have been saved, each with
\* a reference that was resolved and written back.
C8_Witness ==
  \A kinds \in {{"img", "script", "link", "iframe"}, {"url", "import"}, {"js"}} :
    \E q \in DOMAIN files : \E k \in 1..Len(files[q].doc) :
      files[q].doc[k].kind \in kinds /\ files[q].doc[k].st = "local"

\* C9: in process_html the page is written only after every worker submitted
\* for that page has finished and its result has been applied: a call that
\* is writing or has written its page has no worker queued, running or
\* unapplied.
C9_WriteAfterWorkers ==
  \A i \in 1..Len(frames) :
    (frames[i].fn = "html" /\ frames[i].pc \in {"write", "done"}) =>
      \A c \in PoolChildren(frames, i) : frames[c].pc = "applied"

\* C9 witness: a page with several workers has been written, one of its
\* workers having failed to resolve its asset.
C9_Witness ==
  \E i \in 1..Len(frames) :
    /\ frames[i].fn = "html"
    /\ frames[i].pc = "done"
    /\ frames[i].ret.kind = "val"
    /\ Cardinality(PoolChildren(frames, i)) >= 2
    /\ \E c \in PoolChildren(frames, i) : ~frames[c].ret.ok

\* C10: for every requested concurrency value, the pool that resolves one
\* page's assets never runs more than 3 workers at the same time, and a
\* usable pool is created for every requested value.
C10_PoolCappedAndUsable ==
  \A i \in 1..Len(frames) :
    frames[i].fn = "html" =>
      /\ Cardinality(Running(frames, i)) <= MAX_CONCURRENCY
      /\ frames[i].pc # "raise"

\* ------------------------------------------------------------------------
\* fetch_url on its own: the server's answers are drawn from every script
\* ------------------------------------------------------------------------

\* what session.get and raise_for_status make of one request: a 2xx answer,
\* an error status, or a transport error
Answers == {"ok", "status", "error"}

\* the requests a call has issued
Gets(ev) == { k \in 1..Len(ev) : ev[k] \in {"ok", "fail"} }

FetchScripts == [1..(MAX_RETRIES + 1) -> Answers]

InitFetch ==
  /\ MainOff
  /\ PureOff
  /\ mk = [pc |-> "off"]
  /\ GuiOff
  /\ fu \in { [pc |-> "get", resp |-> r, attempt |-> 1, ev |-> <<>>, ret |-> 0] :
              r \in FetchScripts }

\* the raise of the except clause, on the last attempt only
FU_Get_never_raises(attempt) == FALSE

fetch_gives_up(attempt) == attempt = MAX_RETRIES

\* session.get(url); resp.raise_for_status(); the except clause
FU_Get ==
  /\ fu.pc = "get"
  /\ With(Cardinality(Gets(fu.ev)) + 1, LAMBDA k :
       /\ k <= Len(fu.resp)
       /\ IF fu.resp[k] = "ok"
            THEN fu' = [fu EXCEPT !.ev = Append(@, "ok"), !.pc = "rate", !.ret = k]
            ELSE fu' = [fu EXCEPT !.ev = Append(@, "fail"),
                                  !.pc = IF fetch_gives_up(fu.attempt)
                                           THEN "raised" ELSE "delay"])
  /\ UNCHANGED << mainVars, pureVars, mk, era, batch >>

\* time.sleep(RATE_LIMIT); return resp.content
FU_RateLimit ==
  /\ fu.pc = "rate"
  /\ fu' = [fu EXCEPT !.ev = Append(@, "rate"), !.pc = "returned"]
  /\ UNCHANGED << mainVars, pureVars, mk, era, batch >>

\* time.sleep(RETRY_DELAY), then the next turn of the loop
FU_RetryDelay ==
  /\ fu.pc = "delay"
  /\ fu' = [fu EXCEPT !.ev = Append(@, "delay"), !.pc = "get",
                      !.attempt = @ + 1]
  /\ UNCHANGED << mainVars, pureVars, mk, era, batch >>

NextFetch == FU_Get \/ FU_RateLimit \/ FU_RetryDelay

SpecFetch == InitFetch /\ [][NextFetch]_vars

\* C11: fetch_url issues at most MAX_RETRIES requests, waits between a failed
\* request and the next one, returns the body of the first 2xx answer and asks
\* nothing more after it, and raises only when MAX_RETRIES requests in a row
\* have failed.
C11_FetchRetries ==
  fu.pc # "off" =>
    /\ Cardinality(Gets(fu.ev)) <= MAX_RETRIES
    /\ \A k \in 1..Len(fu.ev) :
         /\ (fu.ev[k] = "fail" /\ k < Len(fu.ev)) => fu.ev[k + 1] = "delay"
         /\ fu.ev[k] = "ok" => \A j \in (k + 1)..Len(fu.ev) : j \notin Gets(fu.ev)
    /\ fu.pc = "returned" =>
         /\ fu.resp[fu.ret] = "ok"
         /\ \A j \in 1..(fu.ret - 1) : fu.resp[j] # "ok"
         /\ Cardinality(Gets(fu.ev)) = fu.ret
    /\ fu.pc = "raised" =>
         /\ Cardinality(Gets(fu.ev)) = MAX_RETRIES
         /\ \A j \in 1..MAX_RETRIES : fu.resp[j] # "ok"

\* two failed requests, each followed by the delay, and a third that succeeds
C11_Witness ==
  /\ fu.pc = "returned"
  /\ fu.ret = MAX_RETRIES
  /\ fu.ev = << "fail", "delay", "fail", "delay", "ok", "rate" >>

\* the save_file calls of the save loop of a process_asset call
Saves(f) == { k \in 1..Len(f.hist) : f.hist[k] \in {"intact", "mismatch"} }

\* C12: when the bytes read back after the first write differ, fetch_url
\* then returns the bytes again and the second write reads back right, the
\* file on disk holds the bytes of the archive; and no process_asset call
\* saves more than MAX_RETRIES times.
C12_VerifiedRetry ==
  \A i \in 1..Len(frames) :
    frames[i].fn = "asset" =>
      /\ Cardinality(Saves(frames[i])) <= MAX_RETRIES
      /\ (frames[i].pc = "mark" /\ frames[i].hist = << "mismatch", "fetched", "intact" >>) =>
           /\ normpath(frames[i].local) \in DOMAIN files
           /\ files[normpath(frames[i].local)] =
                [src |-> frames[i].url, doc |-> raw_doc(frames[i]), intact |-> TRUE]

\* a stylesheet or script went through a mismatch, a second fetch and a
\* second write that read back right
C12_Witness ==
  \E i \in 1..Len(frames) :
    /\ frames[i].pc = "mark"
    /\ frames[i].ftype \in {"css", "js"}
    /\ frames[i].hist = << "mismatch", "fetched", "intact" >>

\* the verification of a process_asset call ended without a match
VerifyFailed(f) ==
  /\ f.fn = "asset"
  /\ f.hist # <<>>
  /\ \/ f.hist[Len(f.hist)] = "fetch_failed"
     \/ f.hist[Len(f.hist)] = "mismatch" /\ Cardinality(Saves(f)) = MAX_RETRIES

\* C13: when the hashes differ on all MAX_RETRIES saves, or fetch_url fails
\* inside the save loop, process_asset does not raise: what was written
\* last is on disk, a hash-mismatch line was logged, and the call returns
\* the path of the file relative to page_dir.
C13_VerifyFailureKept ==
  \A i \in 1..Len(frames) :
    VerifyFailed(frames[i]) =>
      /\ frames[i].pc \in {"mark", "done", "applied"}
      /\ frames[i].log \in {"retrying", "giving up"}
      /\ frames[i].pc = "mark" =>
           /\ normpath(frames[i].local) \in DOMAIN files
           /\ files[normpath(frames[i].local)] =
                [src |-> frames[i].url, doc |-> frames[i].doc, intact |-> FALSE]
      /\ frames[i].pc # "mark" =>
           frames[i].ret =
             RetVal(clean_rel_path(relpath(frames[i].local, frames[i].dir)), TRUE)

\* a call whose MAX_RETRIES saves all read back wrong has returned
C13_Witness ==
  \E i \in 1..Len(frames) :
    /\ VerifyFailed(frames[i])
    /\ Cardinality(Saves(frames[i])) = MAX_RETRIES
    /\ frames[i].log = "giving up"
    /\ frames[i].ret.kind = "val"

\* ------------------------------------------------------------------------
\* mark_downloaded on its own: threads that share one lock, one set and one
\* ledger file
\* ------------------------------------------------------------------------

\* the threads that call mark_downloaded
MkThreads == 2

\* the calls each thread makes
MkCalls == 2

\* the URLs they mark
MkUrls == {HostA \o P_x_png, HostB \o P_x_png}

\* the ledger a run can find: what earlier calls appended
MkLedgers == {<<>>} \cup {<< u >> : u \in MkUrls}

InitMark ==
  /\ MainOff
  /\ PureOff
  /\ fu = [pc |-> "off"]
  /\ GuiOff
  /\ mk \in { [pc |-> "on",
               at |-> [t \in 1..MkThreads |-> "idle"],
               url |-> [t \in 1..MkThreads |-> <<>>],
               left |-> [t \in 1..MkThreads |-> MkCalls],
               lock |-> 0,
               set |-> load_downloaded(l),
               lines |-> l] : l \in MkLedgers }

\* a with statement that does not wait for the lock
lock_ignored(lock) == TRUE

\* with lock: the lock can be taken when no thread holds it
lock_free(lock) == lock = 0

\* a thread calls mark_downloaded(output_dir, url, lock, downloaded)
MK_Call(t) ==
  /\ mk.pc = "on"
  /\ mk.at[t] = "idle"
  /\ mk.left[t] > 0
  /\ \E u \in MkUrls :
       mk' = [mk EXCEPT !.at[t] = "acquire", !.url[t] = u, !.left[t] = @ - 1]
  /\ UNCHANGED << mainVars, pureVars, fu, era, batch >>

\* with lock:
MK_Acquire(t) ==
  /\ mk.pc = "on"
  /\ mk.at[t] = "acquire"
  /\ lock_free(mk.lock)
  /\ mk' = [mk EXCEPT !.at[t] = "test", !.lock = t]
  /\ UNCHANGED << mainVars, pureVars, fu, era, batch >>

\* if url in downloaded: return (the with statement releases the lock)
MK_Test(t) ==
  /\ mk.pc = "on"
  /\ mk.at[t] = "test"
  /\ mk' = IF mk.url[t] \in mk.set
           THEN [mk EXCEPT !.at[t] = "idle", !.lock = 0]
           ELSE [mk EXCEPT !.at[t] = "add"]
  /\ UNCHANGED << mainVars, pureVars, fu, era, batch >>

\* downloaded.add(url)
MK_Add(t) ==
  /\ mk.pc = "on"
  /\ mk.at[t] = "add"
  /\ mk' = [mk EXCEPT !.at[t] = "append", !.set = mark_set(@, mk.url[t])]
  /\ UNCHANGED << mainVars, pureVars, fu, era, batch >>

\* with open(path, 'a') as f: f.write(url + '\n')
MK_Append(t) ==
  /\ mk.pc = "on"
  /\ mk.at[t] = "append"
  /\ mk' = [mk EXCEPT !.at[t] = "release", !.lines = Append(@, mk.url[t])]
  /\ UNCHANGED << mainVars, pureVars, fu, era, batch >>

\* the end of the with lock block
MK_Release(t) ==
  /\ mk.pc = "on"
  /\ mk.at[t] = "release"
  /\ mk' = [mk EXCEPT !.at[t] = "idle", !.lock = 0]
  /\ UNCHANGED << mainVars, pureVars, fu, era, batch >>

NextMark ==
  \/ \E t \in 1..MkThreads : MK_Call(t)
  \/ \E t \in 1..MkThreads : MK_Acquire(t)
  \/ \E t \in 1..MkThreads : MK_Test(t)
  \/ \E t \in 1..MkThreads : MK_Add(t)
  \/ \E t \in 1..MkThreads : MK_Append(t)
  \/ \E t \in 1..MkThreads : MK_Release(t)

SpecMark == InitMark /\ [][NextMark]_vars

\* C14: under every interleaving of mark_downloaded calls that share one
\* lock and one set, each URL is appended to the ledger file at most once,
\* and whenever no thread is inside mark_downloaded the lines of the file
\* are the members of the set.
C14_LedgerLinesUnique ==
  mk.pc = "on" =>
    /\ \A j, k \in 1..Len(mk.lines) : mk.lines[j] = mk.lines[k] => j = k
    /\ (\A t \in 1..MkThreads : mk.at[t] = "idle") =>
         {mk.lines[k] : k \in 1..Len(mk.lines)} = mk.set

\* one thread waits for the lock while the other, holding it, is about to
\* append the same URL
C14_Witness ==
  /\ mk.pc = "on"
  /\ \E t, o \in 1..MkThreads :
       /\ t # o
       /\ mk.at[t] = "acquire"
       /\ mk.at[o] = "append"
       /\ mk.url[t] = mk.url[o]

\* C15: during download_page the ledger only grows: a step of a run removes
\* no URL from the in-memory set and no line from the ledger file, and when
\* the run is over every URL the file held at its start is in both; the file
\* loses lines only between runs, when main is started with --reset.
C15_LedgerOnlyGrows ==
  /\ [][ run' = run =>
           /\ downloaded \subseteq downloaded'
           /\ StartsWith(ledgerFile', ledgerFile) ]_vars
  /\ [](dpc = "done" =>
          ledger0 \subseteq (downloaded \cap load_downloaded(ledgerFile)))

\* a second run that found URLs in the ledger and added one more
C15_Witness ==
  /\ run = 2
  /\ dpc = "done"
  /\ ledger0 # {}
  /\ downloaded # ledger0
  /\ ledger0 \subseteq downloaded

\* process_asset gives up: the call returns the asset URL it was given and
\* leaves the set and the ledger file alone
GaveUp(f, g) ==
  /\ g.pc = "done"
  /\ g.ret = RetVal(f.url, FALSE)
  /\ downloaded' = downloaded
  /\ ledgerFile' = ledgerFile

\* what one step makes of a process_asset call around the nearest-snapshot
\* lookup: f before the step, g after it
NearestStep(f, g) ==
  /\ (g.pc = "nearest" /\ f.pc # "nearest") => f.pc = "fetch"
  /\ (f.pc = "nearest" /\ g.pc # "nearest") =>
       /\ netCalls' = netCalls + 1
       /\ \/ g.pc = "refetch" /\ g.tmp \in Snapshots \ {f.ts}
          \/ GaveUp(f, g)
  /\ (g.pc = "refetch" /\ f.pc # "refetch") => f.pc = "nearest"
  /\ (f.pc = "refetch" /\ g.pc # "refetch") =>
       /\ netCalls' = netCalls + 1
       /\ \/ g.pc \in {"wait", "rewrite", "save"}
          \/ GaveUp(f, g)

\* C16: process_asset looks for the nearest snapshot only after its first
\* fetch_url call failed; a timestamp other than the one tried is followed
\* by exactly one more fetch_url call; no answer, the same timestamp or a
\* failed second fetch end the call with the asset URL returned as it was
\* given and nothing added to the ledger.
C16_NearestSnapshotFallback ==
  [][ \A i \in 1..Len(frames) :
        (i <= Len(frames') /\ frames[i].fn = "asset") =>
          NearestStep(frames[i], frames'[i]) ]_vars

\* one call gave up and another is about to fetch at the other snapshot
C16_Witness ==
  /\ \E i \in 1..Len(frames) :
       /\ frames[i].fn = "asset"
       /\ frames[i].pc = "done"
       /\ frames[i].ret = RetVal(frames[i].url, FALSE)
  /\ \E j \in 1..Len(frames) :
       /\ frames[j].fn = "asset"
       /\ frames[j].pc = "refetch"
       /\ frames[j].tmp \in Snapshots \ {frames[j].ts}

\* C17: in process_html, when process_asset could fetch a queued asset
\* neither at its own timestamp nor at the nearest snapshot, the element
\* that carries the reference is removed from the document.
C17_FailedAssetRemoved ==
  \A c \in 1..Len(frames) :
    ( /\ frames[c].mode = "pool"
      /\ frames[c].pc = "applied"
      /\ frames[c].ret = RetVal(frames[c].url, FALSE) ) =>
        frames[frames[c].parent].doc[frames[c].slot].st = "dropped"

\* C18: once the seed page is fetched, no failure of a single asset stops
\* process_html: a process_asset call that raised for a reference of a page
\* leaves the page's process_html running, so that the other assets are
\* resolved and the page is written.
C18_AssetFailureIsolated ==
  \A c \in 1..Len(frames) :
    ( /\ frames[c].fn = "asset"
      /\ frames[c].ret.kind = "exc"
      /\ frames[c].parent > 0
      /\ frames[frames[c].parent].fn = "html" ) =>
        frames[frames[c].parent].pc # "raise"

\* download_page raised because fetch_url failed for the seed page
SeedFetchFailed == dpc = "raised" /\ dp.original # <<>> /\ frames = <<>>

\* C19: when fetch_url fails for the seed page, download_page raises, and
\* then no file has been written under the output root and the ledger file
\* and the in-memory set are what they were when the run loaded the ledger.
C19_SeedFailureWritesNothing ==
  /\ [][ (dpc = "fetch" /\ dpc' = "raised") =>
           /\ files' = files
           /\ ledgerFile' = ledgerFile
           /\ downloaded' = downloaded ]_vars
  /\ [](SeedFetchFailed =>
          /\ DOMAIN files = files0
          /\ load_downloaded(ledgerFile) = ledger0
          /\ downloaded = ledger0)

\* the seed fetch of a second run failed, over a tree and a ledger the
\* first run had filled
C19_Witness ==
  /\ SeedFetchFailed
  /\ run = 2
  /\ files0 # {}
  /\ ledger0 # {}

\* html_path of process_asset: compute_local_path(output_dir, original, add_ext=True)
HtmlPathOf(f) == compute_local_path(OUT, f.url, TRUE)

\* C20: when process_asset detects the fetched content as HTML, the content
\* goes through process_html and is saved under the HTML-coerced path and
\* not under the plain path, the URL is added to the ledger, and the call
\* returns the path of the nested page relative to page_dir; a later call
\* for the same URL returns that relative path too.
C20_HtmlAssetNested ==
  \A i \in 1..Len(frames) :
    ( /\ frames[i].fn = "asset"
      /\ frames[i].pc \in {"done", "applied"}
      /\ frames[i].ret.kind = "val"
      /\ frames[i].ret.ok
      /\ \E j \in 1..Len(frames) :
           /\ frames[j].fn = "asset"
           /\ frames[j].url = frames[i].url
           /\ frames[j].ftype = "html"
           /\ frames[j].pc \in {"done", "applied"}
           /\ frames[j].ret.kind = "val" ) =>
        /\ normpath(HtmlPathOf(frames[i])) \in DOMAIN files
        /\ files[normpath(HtmlPathOf(frames[i]))].src = frames[i].url
        /\ normpath(frames[i].local) \in DOMAIN files =>
             files[normpath(frames[i].local)].src # frames[i].url
        /\ frames[i].url \in downloaded
        /\ frames[i].ret.val = relpath(HtmlPathOf(frames[i]), frames[i].dir)

\* the process_asset calls a call made while it rewrote its text
Resolutions(i) == { c \in 1..Len(frames) : frames[c].parent = i /\ frames[c].fn = "asset" }

\* a stylesheet with one @import url(...) and one url(...), rewritten
TwoRefStylesheet(f) ==
  /\ f.fn = "asset"
  /\ f.ftype = "css"
  /\ f.pc = "save"
  /\ f.attempt = 1
  /\ Len(f.doc) = 2
  /\ {f.doc[1].kind, f.doc[2].kind} = {"import", "url"}

\* C21: for a stylesheet with one @import url(...) and one url(...) that
\* name two assets, both of which process_asset resolves, rewrite_css makes
\* exactly two process_asset calls, and
\* every reference it rewrote to a local path names, from the directory the
\* stylesheet is saved in, a file that exists.
C21_CssTwoResolutions ==
  \A i \in 1..Len(frames) :
    ( /\ TwoRefStylesheet(frames[i])
      /\ \A c \in Resolutions(i) : frames[c].ret.ok ) =>
      /\ Cardinality(Resolutions(i)) = 2
      /\ \A k \in 1..2 :
           frames[i].doc[k].st = "local" =>
             normpath(path_join(dirname(frames[i].local), frames[i].doc[k].val))
               \in DOMAIN files

\* ------------------------------------------------------------------------
\* EraRipWorker._query_cdx: the reduction of the rows of the CDX answer
\* ------------------------------------------------------------------------

\* the longest answer tried (rows after the header row)
CdxRows == 3

\* A row is << timestamp, original, digest >>.  Timestamps are digit strings
\* of one length and are compared as strings, URLs are sorted as strings:
\* both are named here by their rank in that order.
CdxStamps == {1, 2, 3}

CdxUrls == {1, 2, 3}

CdxDigests == {"X", "Y"}

\* the rows an answer can hold, one of them too short to be read
CdxRowSet == (CdxStamps \X CdxUrls \X CdxDigests) \cup {<< 1, 1 >>}

\* the sequences over S of length up to n
RECURSIVE SeqsUpTo(_, _)
SeqsUpTo(S, n) ==
  IF n = 0 THEN {<<>>}
  ELSE With(SeqsUpTo(S, n - 1), LAMBDA shorter :
         shorter \cup {Append(s, x) : s \in {t \in shorter : Len(t) = n - 1}, x \in S})

\* a reduction that skips no row for its digest
digest_never_covered(seen_digests, url_earliest, row) == FALSE

\* if digest in seen_digests: if original not in url_earliest: continue
digest_covered(seen_digests, url_earliest, row) ==
  row[3] \in seen_digests /\ row[2] \notin DOMAIN url_earliest

\* if original not in url_earliest or timestamp < url_earliest[original][0]
row_replaces(url_earliest, row) ==
  row[2] \notin DOMAIN url_earliest \/ row[1] < url_earliest[row[2]][1]

\* one turn of the loop over data[1:]
cdx_row(st, row) ==
  IF Len(row) < 3 THEN st
  ELSE IF digest_covered(st.seen_digests, st.url_earliest, row) THEN st
  ELSE [seen_digests |-> st.seen_digests \cup {row[3]},
        url_earliest |->
          IF row_replaces(st.url_earliest, row)
          THEN [u \in DOMAIN st.url_earliest \cup {row[2]} |->
                  IF u = row[2] THEN << row[1], row[3] >> ELSE st.url_earliest[u]]
          ELSE st.url_earliest]

\* the loop over the rows: seen_digests and url_earliest after it
RECURSIVE cdx_reduce(_, _)
cdx_reduce(st, rows) ==
  IF rows = <<>> THEN st ELSE cdx_reduce(cdx_row(st, Head(rows)), Tail(rows))

url_earliest_of(rows) ==
  cdx_reduce([seen_digests |-> {}, url_earliest |-> <<>>], rows).url_earliest

\* result.sort(key=lambda x: x[0]): the entries (url, ts) in the order of
\* their URLs
RECURSIVE sort_by_url(_)
sort_by_url(kept) ==
  IF DOMAIN kept = {} THEN <<>>
  ELSE With(SetMin(DOMAIN kept), LAMBDA u :
         << << u, kept[u][1] >> >>
           \o sort_by_url([v \in DOMAIN kept \ {u} |-> kept[v]]))

\* _query_cdx, after the answer was read
query_cdx(rows) == sort_by_url(url_earliest_of(rows))

InitCdx ==
  /\ MainOff
  /\ UnitOff
  /\ pop = "none"
  /\ pout = <<>>
  /\ pin \in SeqsUpTo(CdxRowSet, CdxRows)

ApplyQueryCdx ==
  /\ pop = "none"
  /\ pop' = "query_cdx"
  /\ pout' = query_cdx(pin)
  /\ UNCHANGED << pin, mainVars, unitVars >>

NextCdx == ApplyQueryCdx

SpecCdx == InitCdx /\ [][NextCdx]_vars

\* the rows of an answer that have a digest, by position
FullRows(rows) == { k \in 1..Len(rows) : Len(rows[k]) = 3 }

\* every row of url carries a digest that an earlier row of another URL carried
AllCovered(rows, url) ==
  \A k \in FullRows(rows) :
    rows[k][2] = url =>
      \E j \in FullRows(rows) :
        j < k /\ rows[j][2] # url /\ rows[j][3] = rows[k][3]

\* the rows of the example: (ts=3, A, X), (ts=1, A, X), (ts=2, B, X)
CdxExample == << << 3, 1, "X" >>, << 1, 1, "X" >>, << 2, 2, "X" >> >>

\* C22: _query_cdx returns at most one entry per URL; a URL all of whose
\* rows carry a digest that an earlier row of another URL carried is not in
\* the result; for the rows of the example the result is A at timestamp 1.
C22_OneEntryPerUrl ==
  pop = "query_cdx" =>
    /\ \A j, k \in 1..Len(pout) : pout[j][1] = pout[k][1] => j = k
    /\ \A u \in CdxUrls :
         AllCovered(pin, u) => \A k \in 1..Len(pout) : pout[k][1] # u
    /\ pin = CdxExample => pout = << << 1, 1 >> >>

\* the reduction was applied to the rows of the example
C22_Witness ==
  /\ pop = "query_cdx"
  /\ pin = CdxExample
  /\ pout = << << 1, 1 >> >>

\* C23: for every URL _query_cdx keeps, the timestamp kept is the smallest
\* timestamp among all rows of that URL, for every order of the rows and
\* every assignment of digests.
C23_EarliestTimestampKept ==
  pop = "query_cdx" =>
    \A k \in 1..Len(pout) :
      \A j \in FullRows(pin) :
        pin[j][2] = pout[k][1] => pout[k][2] <= pin[j][1]

\* C24: no two entries of the list _query_cdx returns, with different URLs,
\* were kept with the same digest, for every order of the rows.
C24_NoDigestKeptTwice ==
  pop = "query_cdx" =>
    \A u, v \in DOMAIN url_earliest_of(pin) :
      u # v => url_earliest_of(pin)[u][2] # url_earliest_of(pin)[v][2]

\* ------------------------------------------------------------------------
\* EraRipWorker.run and EraRipWorker.cancel
\* ------------------------------------------------------------------------

\* the longest CDX answer an era run is given
EraRows == 2

EraRowSet == {1, 2} \X {1, 2} \X CdxDigests

\* A signal the worker emitted, or a call of cancel, as << name, argument >>
Ev(name, n) == << name, n >>

InitEra ==
  /\ MainOff
  /\ PureOff
  /\ fu = [pc |-> "off"]
  /\ mk = [pc |-> "off"]
  /\ batch = [pc |-> "off"]
  /\ era \in { [pc |-> "query", rows |-> r, entries |-> <<>>, i |-> 1,
                downloaded_count |-> 0, cancelled |-> FALSE, out |-> <<>>] :
               r \in SeqsUpTo(EraRowSet, EraRows) }

\* run: entries = self._query_cdx(), which raises when the request or the
\* decoding of the answer fails; the outer except emits error
ER_Query ==
  /\ era.pc = "query"
  /\ \E ok \in BOOLEAN :
       era' = IF ~ok
              THEN [era EXCEPT !.pc = "done", !.out = Append(@, Ev("error", 0))]
              ELSE IF query_cdx(era.rows) = <<>>
              THEN [era EXCEPT !.pc = "done", !.out = Append(@, Ev("finished_ok", 0))]
              ELSE [era EXCEPT !.pc = "loop", !.entries = query_cdx(era.rows)]
  /\ UNCHANGED << mainVars, pureVars, fu, mk, batch >>

\* a loop that does not look at the flag
cancel_ignored(cancelled) == FALSE

\* if self._cancelled
cancel_seen(cancelled) == cancelled

\* run, the top of the loop: the flag is tested, the next entry announced;
\* after the loop finished_ok is emitted
ER_Next ==
  /\ era.pc = "loop"
  /\ era' =
       IF era.i > Len(era.entries)
       THEN [era EXCEPT !.pc = "done",
                        !.out = Append(@, Ev("finished_ok", era.downloaded_count))]
       ELSE IF cancel_seen(era.cancelled)
       THEN [era EXCEPT !.pc = "done",
                        !.out = @ \o << Ev("cancelled", 0),
                                        Ev("finished_ok", era.downloaded_count) >>]
       ELSE [era EXCEPT !.pc = "download", !.out = Append(@, Ev("start", era.i))]
  /\ UNCHANGED << mainVars, pureVars, fu, mk, batch >>

\* a loop that lets the exception of _download_entry out to the outer except
download_failure_ends_run(e) ==
  [e EXCEPT !.pc = "done", !.out = @ \o << Ev("error", 0) >>]

\* except Exception as e: self.progress.emit(f"  Failed: {e}")
download_failed(e) ==
  [e EXCEPT !.pc = "loop", !.i = @ + 1, !.out = Append(@, Ev("failed", e.i))]

\* run: self._download_entry(original_url, timestamp) returns after saving
\* the file, returns at once because the local path exists, or raises;
\* downloaded_count += 1 follows each return
ER_Download ==
  /\ era.pc = "download"
  /\ \E outcome \in {"saved", "skipped", "failed"} :
       era' = IF outcome # "failed"
              THEN [era EXCEPT !.pc = "loop", !.i = @ + 1,
                               !.downloaded_count = @ + 1,
                               !.out = Append(@, Ev(outcome, era.i))]
              ELSE download_failed(era)
  /\ UNCHANGED << mainVars, pureVars, fu, mk, batch >>

\* cancel, called from the thread of the dialog while the worker runs
ER_Cancel ==
  /\ era.pc \in {"query", "loop", "download"}
  /\ ~era.cancelled
  /\ era' = [era EXCEPT !.cancelled = TRUE, !.out = Append(@, Ev("cancel", 0))]
  /\ UNCHANGED << mainVars, pureVars, fu, mk, batch >>

NextEra == ER_Query \/ ER_Next \/ ER_Download \/ ER_Cancel

SpecEra == InitEra /\ [][NextEra]_vars

\* the positions of the events called name
EvAt(out, name) == { k \in 1..Len(out) : out[k][1] = name }

\* C25: the worker downloads the kept entries one at a time, in
\* non-decreasing order of their timestamps.
C25_DownloadsInTimestampOrder ==
  era.pc # "off" =>
    \A j, k \in EvAt(era.out, "start") :
      j < k => era.entries[era.out[j][2]][2] <= era.entries[era.out[k][2]][2]

\* the signals that end a run
Final(out) == EvAt(out, "finished_ok") \cup EvAt(out, "error")

\* out without the calls of cancel, which come from the other thread
Emitted(out) == SelectSeq(out, LAMBDA e : e[1] # "cancel")

\* C27: a run ends with exactly one of finished_ok and error, emitted last;
\* a failed download is reported and the loop goes on with the next entry;
\* error follows a failed index query only.
C27_OneFinalSignal ==
  era.pc # "off" =>
    /\ (era.pc = "done") <=> (Cardinality(Final(era.out)) = 1)
    /\ Cardinality(Final(era.out)) <= 1
    /\ era.pc = "done" => Emitted(era.out)[Len(Emitted(era.out))][1] \in {"finished_ok", "error"}
    /\ \A k \in EvAt(Emitted(era.out), "failed") :
         LET em == Emitted(era.out) IN
         /\ em[k - 1] = Ev("start", em[k][2])
         /\ k < Len(em) =>
              \/ em[k + 1] = Ev("start", em[k][2] + 1)
              \/ em[k + 1][1] = "cancelled"
              \/ /\ em[k + 1][1] = "finished_ok"
                 /\ em[k][2] = Len(era.entries)
    /\ EvAt(era.out, "error") # {} => Emitted(era.out) = << Ev("error", 0) >>

\* a run in which the first download failed and the second was started
C27_Witness ==
  /\ era.pc = "done"
  /\ Emitted(era.out) = << Ev("start", 1), Ev("failed", 1), Ev("start", 2),
                           Ev("saved", 2), Ev("finished_ok", 1) >>

\* what holds of a trace in which cancel was called: every entry started
\* before the call has completed, none was started after it, and the run
\* ended with finished_ok carrying the number of entries saved
CancelHonoured(e) ==
  LET c == CHOOSE k \in EvAt(e.out, "cancel") : TRUE
      last == e.out[Len(e.out)]
  IN /\ \A k \in EvAt(e.out, "start") : k < c
     /\ \A k \in EvAt(e.out, "start") :
          \E j \in EvAt(e.out, "saved") \cup EvAt(e.out, "skipped")
                     \cup EvAt(e.out, "failed") :
            j = k + 1 \/ (j = k + 2 /\ c = k + 1)
     /\ last = Ev("finished_ok", Cardinality(EvAt(e.out, "saved")
                                               \cup EvAt(e.out, "skipped")))

\* C28 as stated: once cancel was called, the entry in progress completes,
\* no later entry is started and the run ends with finished_ok and the
\* count reached.
C28_CancelEndsWithFinishedOk ==
  (era.pc = "done" /\ EvAt(era.out, "cancel") # {}) => CancelHonoured(era)

\* C28: the same, for a run whose index query did not fail.
C28_CancelAfterQuery ==
  /\ (era.pc = "done" /\ EvAt(era.out, "cancel") # {}
                       /\ EvAt(era.out, "error") = {})
       => CancelHonoured(era)
  /\ (era.pc \in {"loop", "download"} /\ era.cancelled) =>
       \A k \in EvAt(era.out, "start") :
         k < CHOOSE c \in EvAt(era.out, "cancel") : TRUE

\* cancel called while the first of two entries was being downloaded
C28_Witness ==
  /\ era.pc = "done"
  /\ Len(era.entries) = 2
  /\ era.out = << Ev("start", 1), Ev("cancel", 0), Ev("saved", 1),
                  Ev("cancelled", 0), Ev("finished_ok", 1) >>

\* ------------------------------------------------------------------------
\* BatchMainWindow and BatchRipperWorker
\* ------------------------------------------------------------------------

\* the longest queue of jobs
BatchJobs == 2

\* what the form holds when "Add more" is clicked, already stripped
JobUrls == {"", "a", "b"}

JobPaths == {"", "p"}

\* BatchMainWindow.__init__ and _build_ui: no job, no worker, every button
\* enabled; worker is the thread's position, out the signals it emitted
\* (indices as enumerate gives them, from 0), pend the signals not yet
\* delivered to the window
InitBatch ==
  /\ MainOff
  /\ PureOff
  /\ fu = [pc |-> "off"]
  /\ mk = [pc |-> "off"]
  /\ era = [pc |-> "off"]
  /\ batch = [pc |-> "open", jobs |-> <<>>, running |-> FALSE,
              cancel_btn |-> TRUE, worker |-> "none", wjobs |-> <<>>,
              idx |-> 0, out |-> <<>>, pend |-> <<>>]

\* add_job: a click on "Add more"
add_job ==
  /\ batch.pc = "open"
  /\ ~batch.running
  /\ Len(batch.jobs) < BatchJobs
  /\ \E url \in JobUrls, save_path \in JobPaths :
       batch' = IF url = ""
                THEN batch
                ELSE [batch EXCEPT !.jobs = Append(@, [url |-> url, save_path |-> save_path])]
  /\ UNCHANGED << mainVars, pureVars, fu, mk, era >>

\* _set_ui_running_state
set_ui_running_state(b, running) ==
  [b EXCEPT !.running = running, !.cancel_btn = ~running]

\* execute_jobs: a click on "Execute"
execute_jobs ==
  /\ batch.pc = "open"
  /\ ~batch.running
  /\ batch' = IF batch.jobs = <<>>
              THEN batch
              ELSE [set_ui_running_state(batch, TRUE) EXCEPT
                      !.worker = "start", !.wjobs = batch.jobs,
                      !.idx = 0, !.out = <<>>]
  /\ UNCHANGED << mainVars, pureVars, fu, mk, era >>

\* the Cancel button: clicked.connect(self.close)
cancel_clicked ==
  /\ batch.pc = "open"
  /\ batch.cancel_btn
  /\ batch' = [batch EXCEPT !.pc = "closed"]
  /\ UNCHANGED << mainVars, pureVars, fu, mk, era >>

\* run: the top of the loop and self.job_started.emit; after the last job
\* all_done is emitted and the thread finishes
BR_Start ==
  /\ batch.worker = "start"
  /\ batch' = IF batch.idx < Len(batch.wjobs)
              THEN [batch EXCEPT !.worker = "rip",
                                 !.out = Append(@, Ev("job_started", batch.idx))]
              ELSE [batch EXCEPT !.worker = "finished",
                                 !.out = Append(@, Ev("all_done", 0)),
                                 !.pend = @ \o << "all_done", "finished" >>]
  /\ UNCHANGED << mainVars, pureVars, fu, mk, era >>

\* a loop that a failed job leaves
job_failure_ends_run(b) ==
  [b EXCEPT !.worker = "start", !.idx = Len(b.wjobs),
            !.out = Append(@, Ev("job_error", b.idx))]

\* except Exception as e: self.job_error.emit(idx, str(e))
job_failed(b) ==
  [b EXCEPT !.worker = "start", !.idx = @ + 1,
            !.out = Append(@, Ev("job_error", b.idx))]

\* run: run_ripper returns the page or raises
BR_Rip ==
  /\ batch.worker = "rip"
  /\ \E ok \in BOOLEAN :
       batch' = IF ok
                THEN [batch EXCEPT !.worker = "start", !.idx = @ + 1,
                                   !.out = Append(@, Ev("job_finished", batch.idx))]
                ELSE job_failed(batch)
  /\ UNCHANGED << mainVars, pureVars, fu, mk, era >>

\* on_all_done: the queue is cleared
on_all_done ==
  /\ batch.pend # <<>>
  /\ Head(batch.pend) = "all_done"
  /\ batch' = [batch EXCEPT !.pend = Tail(@), !.jobs = <<>>]
  /\ UNCHANGED << mainVars, pureVars, fu, mk, era >>

\* on_worker_finished
on_worker_finished ==
  /\ batch.pend # <<>>
  /\ Head(batch.pend) = "finished"
  /\ batch' = [set_ui_running_state(batch, FALSE) EXCEPT
                 !.pend = Tail(@), !.worker = "none", !.cancel_btn = TRUE]
  /\ UNCHANGED << mainVars, pureVars, fu, mk, era >>

NextBatch ==
  \/ add_job
  \/ execute_jobs
  \/ cancel_clicked
  \/ BR_Start
  \/ BR_Rip
  \/ on_all_done
  \/ on_worker_finished

SpecBatch == InitBatch /\ [][NextBatch]_vars

\* C26: the signals of a run are, for each job in queue order, job_started
\* and then exactly one of job_finished and job_error, and after the last
\* job all_done, once; the thread finishes when all of them were emitted.
C26_EveryJobAccounted ==
  batch.pc # "off" =>
    LET n == Len(batch.wjobs) IN
    /\ Len(batch.out) <= 2 * n + 1
    /\ \A k \in 1..Len(batch.out) :
         IF k = 2 * n + 1 THEN batch.out[k] = Ev("all_done", 0)
         ELSE IF k % 2 = 1 THEN batch.out[k] = Ev("job_started", (k - 1) \div 2)
         ELSE batch.out[k] \in { Ev("job_finished", (k \div 2) - 1),
                                 Ev("job_error", (k \div 2) - 1) }
    /\ batch.worker = "finished" => Len(batch.out) = 2 * n + 1
    /\ batch.worker \in {"start", "rip"} => Len(batch.out) < 2 * n + 1

\* a run of two jobs, the first of which failed
C26_Witness ==
  batch.out = << Ev("job_started", 0), Ev("job_error", 0),
                 Ev("job_started", 1), Ev("job_finished", 1), Ev("all_done", 0) >>

\* a worker with jobs left to start
BatchRunning ==
  /\ batch.pc = "open"
  /\ batch.worker \in {"start", "rip"}
  /\ batch.idx + 1 < Len(batch.wjobs)

\* C29: while a batch runs the window lets the user ask for cancellation.
C29_CancelWhileRunning ==
  BatchRunning => batch.cancel_btn

\* ------------------------------------------------------------------------
\* EraRipDialog._validate_date and EraRipDialog._start_rip
\* ------------------------------------------------------------------------

\* What a date field holds, already stripped: nothing, a text that is not
\* one or two digits, a slash, one or two digits, a slash and four digits
\* (such as 2020-01-01), or a text of that shape with the numbers written
\* in it
DateMonths == {2, 12, 13}

DateDays == {0, 29, 30}

DateYears == {999, 2020, 2021}

DateTexts ==
  { [shape |-> "empty"], [shape |-> "other"] } \cup
  { [shape |-> "mdy", m |-> m, d |-> d, y |-> y] :
      m \in DateMonths, d \in DateDays, y \in DateYears }

is_leap(y) == y % 4 = 0 /\ (y % 100 # 0 \/ y % 400 = 0)

days_in_month(m, y) ==
  IF m = 2 THEN (IF is_leap(y) THEN 29 ELSE 28)
  ELSE IF m \in {4, 6, 9, 11} THEN 30 ELSE 31

\* datetime.strptime(text, "%m/%d/%Y") does not raise ValueError
strptime_ok(text) ==
  /\ text.shape = "mdy"
  /\ text.m \in 1..12
  /\ text.y \in 1..9999
  /\ text.d \in 1..days_in_month(text.m, text.y)

RECURSIVE digits(_)
\* the decimal digits of n, a text written as a sequence of digits
digits(n) == IF n < 10 THEN << n >> ELSE Append(digits(n \div 10), n % 10)

RECURSIVE zfill(_, _)
zfill(s, w) == IF Len(s) >= w THEN s ELSE zfill(<< 0 >> \o s, w)

\* dt.strftime("%Y%m%d"): the C library's strftime writes a year below
\* 1000 with leading zeros on some platforms and without on others
strftime_ymd(text, padded) ==
  (IF padded THEN zfill(digits(text.y), 4) ELSE digits(text.y))
    \o zfill(digits(text.m), 2) \o zfill(digits(text.d), 2)

\* _validate_date: the YYYYMMDD text, or None, written << >>
validate_date(text, padded) ==
  IF strptime_ok(text) THEN strftime_ymd(text, padded) ELSE << >>

RECURSIVE str_gt(_, _)
\* a > b on texts of digits, as Python compares str
str_gt(a, b) ==
  IF a = <<>> THEN FALSE
  ELSE IF b = <<>> THEN TRUE
  ELSE IF Head(a) # Head(b) THEN Head(a) > Head(b)
  ELSE str_gt(Tail(a), Tail(b))

\* the dialog with its fields filled in and no worker; padded is the
\* platform's strftime
InitDialog ==
  /\ MainOff
  /\ PureOff
  /\ fu = [pc |-> "off"]
  /\ mk = [pc |-> "off"]
  /\ batch = [pc |-> "off"]
  /\ \E url \in {"", "u"}, s, e \in DateTexts, padded \in BOOLEAN :
       era = [pc |-> "form", url |-> url, start_raw |-> s, end_raw |-> e,
              padded |-> padded, enabled |-> TRUE, worker |-> "none",
              warning |-> "none"]

\* _start_rip: a click on the rip button
start_rip ==
  /\ era.pc = "form"
  /\ era.enabled
  /\ LET start_ymd == validate_date(era.start_raw, era.padded)
         end_ymd == validate_date(era.end_raw, era.padded)
     IN era' =
          IF era.url = "" \/ era.start_raw.shape = "empty" \/ era.end_raw.shape = "empty"
          THEN [era EXCEPT !.warning = "Missing Fields"]
          ELSE IF start_ymd = << >>
          THEN [era EXCEPT !.warning = "Invalid Date"]
          ELSE IF end_ymd = << >>
          THEN [era EXCEPT !.warning = "Invalid Date"]
          ELSE IF str_gt(start_ymd, end_ymd)
          THEN [era EXCEPT !.warning = "Invalid Date Range"]
          ELSE [era EXCEPT !.pc = "started", !.enabled = FALSE,
                           !.worker = [url |-> era.url, from_date |-> start_ymd,
                                       to_date |-> end_ymd]]
  /\ UNCHANGED << mainVars, pureVars, fu, mk, batch >>

\* _on_worker_finished: the form is enabled again
on_worker_finished_era ==
  /\ era.pc = "started"
  /\ era' = [era EXCEPT !.pc = "form", !.enabled = TRUE, !.worker = "none"]
  /\ UNCHANGED << mainVars, pureVars, fu, mk, batch >>

NextDialog == start_rip \/ on_worker_finished_era

SpecDialog == InitDialog /\ [][NextDialog]_vars

\* a text naming a day of the calendar in the form MM/DD/YYYY
ValidDate(text) ==
  /\ text.shape = "mdy"
  /\ text.y \in 1..9999
  /\ text.m \in 1..12
  /\ text.d \in 1..days_in_month(text.m, text.y)

\* day a comes after day b
DateAfter(a, b) ==
  \/ a.y > b.y
  \/ a.y = b.y /\ a.m > b.m
  \/ a.y = b.y /\ a.m = b.m /\ a.d > b.d

\* C30: a worker is created only for a non-empty pattern, two valid dates
\* and a start date not after the end date; otherwise the form stays
\* enabled and there is no worker.
C30_WorkerOnlyForValidForm ==
  /\ era.pc = "started" =>
       /\ era.url # ""
       /\ ValidDate(era.start_raw)
       /\ ValidDate(era.end_raw)
       /\ ~DateAfter(era.start_raw, era.end_raw)
  /\ era.pc = "form" => era.enabled /\ era.worker = "none"

\* ------------------------------------------------------------------------
\* clean_rel_path applied to its own result
\* ------------------------------------------------------------------------

\* the longest path clean_rel_path is given
CleanLen == 4

\* the characters of the paths: the ones the function looks for and a letter
CleanChars == {".", "/", "\\", "a"}

InitClean ==
  /\ MainOff
  /\ UnitOff
  /\ pop = "none"
  /\ pout = <<>>
  /\ pin \in SeqsUpTo(CleanChars, CleanLen)

\* clean_rel_path(p) and clean_rel_path(clean_rel_path(p))
ApplyClean ==
  /\ pop = "none"
  /\ pop' = "clean_rel_path"
  /\ pout' = << clean_rel_path(pin), clean_rel_path(clean_rel_path(pin)) >>
  /\ UNCHANGED << pin, mainVars, unitVars >>

NextClean == ApplyClean

SpecClean == InitClean /\ [][NextClean]_vars

\* C40: clean_rel_path applied twice gives what one application gives, and
\* its result starts with none of /, ./ and ../ and holds no backslash.
C40_CleanIdempotent ==
  pop = "clean_rel_path" =>
    /\ pout[2] = pout[1]
    /\ ~StartsWith(pout[1], <<"/">>)
    /\ ~StartsWith(pout[1], <<".", "/">>)
    /\ ~StartsWith(pout[1], <<".", ".", "/">>)
    /\ ~Contains(pout[1], <<"\\">>)

\* ------------------------------------------------------------------------
\* download_page with a final filename
\* ------------------------------------------------------------------------

\* the step of download_page that renames the saved page
Renamed == DP_Return /\ dp.savename # <<>> /\ dpc' = "done"

\* the files of the output tree that were saved from another URL than the
\* page's
AssetFiles == { q \in DOMAIN files : files[q].src # dp.original }

\* C31: with a final filename the saved page is moved to that name in its
\* directory, its HTML-coerced path is gone, the new path is returned, and
\* the rename changes no asset file and no ledger entry.
C31_RenameMovesPageOnly ==
  [][Renamed =>
       LET old == normpath(frames[1].ret.val)
           new == normpath(dp'.local_page)
       IN  /\ new \in DOMAIN files'
           /\ files'[new] = files[old]
           /\ dirname(new) = dirname(old)
           /\ old \notin DOMAIN files'
           /\ ledgerFile' = ledgerFile
           /\ downloaded' = downloaded
           /\ \A q \in AssetFiles : q \in DOMAIN files' /\ files'[q] = files[q]]_vars

\* C39: the count emitted with finished_ok is the number of entries fetched
\* and saved in this run; skipped and failed entries are not counted.
C39_CountIsSavedEntries ==
  era.pc = "done" =>
    \A k \in EvAt(era.out, "finished_ok") :
      era.out[k][2] = Cardinality(EvAt(era.out, "saved"))

\* ------------------------------------------------------------------------
\* The log lines of a run
\* ------------------------------------------------------------------------

\* call i returns a path for an asset it did not fetch
SkipStep(i) ==
  /\ frames[i].fn = "asset" /\ frames[i].pc = "check"
  /\ frames'[i].pc = "done"

\* call i has fetch_url fetch a URL
FetchStep(i) ==
  /\ frames[i].pc \in {"fetch", "refetch", "verify_fetch"}
  /\ frames'[i] # frames[i]

\* the fetch of call i fails
FetchFailStep(i) ==
  \/ frames[i].pc = "fetch" /\ frames'[i].pc = "nearest"
  \/ frames[i].pc = "refetch" /\ frames'[i].pc = "done" /\ ~frames'[i].ret.ok
  \/ frames[i].pc = "verify_fetch" /\ frames'[i].pc = "mark"

\* call i saves its file
SaveStep(i) ==
  \/ frames[i].pc = "save" /\ frames'[i].pc \in {"mark", "verify_fetch"}
  \/ frames[i].pc = "write" /\ frames'[i].pc = "done" /\ frames'[i].ret.kind = "val"

\* the bytes call i reads back are not the ones it wrote
MismatchStep(i) ==
  /\ frames[i].pc = "save"
  /\ Len(frames'[i].hist) > Len(frames[i].hist)
  /\ frames'[i].hist[Len(frames'[i].hist)] = "mismatch"

\* the fetches, saves, skips and failures of call i in a step
StepEvents(i) ==
  (IF SkipStep(i) THEN 1 ELSE 0) + (IF FetchStep(i) THEN 1 ELSE 0)
  + (IF FetchFailStep(i) THEN 1 ELSE 0) + (IF SaveStep(i) THEN 1 ELSE 0)
  + (IF MismatchStep(i) THEN 1 ELSE 0)

\* C32: every fetch, save, skip and failure of a run writes exactly one
\* line to the log: a step of a call adds as many lines as it has events.
C32_OneLinePerEvent ==
  [][\A i \in 1..Len(frames) :
       i <= Len(frames') =>
         Len(frames'[i].lines) = Len(frames[i].lines) + StepEvents(i)]_vars

\* ------------------------------------------------------------------------
\* What the scanners hand to process_asset
\* ------------------------------------------------------------------------

\* the reference, as the archive holds it, that call i resolves
WrittenRef(i) == ResOf(world, frames[frames[i].parent].url).refs[frames[i].slot]

\* the calls of process_asset made for a reference of a document
RefCalls == { i \in 1..Len(frames) : frames[i].fn = "asset" /\ frames[i].parent > 0 }

\* C33: a reference whose written value starts with data: is never passed to
\* process_asset, and it is left as written in the document.
C33_DataRefsUntouched ==
  /\ \A i \in RefCalls : ~StartsWith(WrittenRef(i).val, S_data)
  /\ \A i \in 1..Len(frames) :
       \A k \in 1..Len(frames[i].doc) :
         StartsWith(ResOf(world, frames[i].url).refs[k].val, S_data)
           => frames[i].doc[k].val = ResOf(world, frames[i].url).refs[k].val

\* the timestamp a written reference carries, << >> when it carries none
RefTs(val) ==
  IF Contains(val, S_web \o TS1) THEN TS1
  ELSE IF Contains(val, S_web \o TS2) THEN TS2
  ELSE << >>

\* C34: a reference written as an archive URL with a timestamp is fetched at
\* that timestamp, any other reference at the timestamp of the document it
\* stands in.
C34_ReferenceTimestampWins ==
  \A i \in RefCalls :
    frames[i].ts = IF RefTs(WrittenRef(i).val) # << >>
                   THEN RefTs(WrittenRef(i).val)
                   ELSE frames[frames[i].parent].ts

\* C35: an asset whose content goes through process_html, rewrite_css or
\* rewrite_js was fetched in raw mode.
C35_RewrittenAssetsFetchedRaw ==
  \A i \in 1..Len(frames) :
    (frames[i].fn = "asset" /\ frames[i].ftype \in {"html", "css", "js"})
      => is_raw(frames[i].url)

\* ------------------------------------------------------------------------
\* Nesting
\* ------------------------------------------------------------------------

\* the calls that call i is nested in
RECURSIVE Ancestors(_, _)
Ancestors(frs, i) ==
  IF frs[i].parent = 0 THEN {}
  ELSE {frs[i].parent} \cup Ancestors(frs, frs[i].parent)

\* C36: the nesting of process_html calls is bounded by the site: no page is
\* processed inside a call that is processing the same page, so a cycle of
\* pages ends when it comes back to a page already under way.
C36_NoPageInsideItself ==
  \A i \in 1..Len(frames) :
    frames[i].fn = "html" =>
      \A a \in Ancestors(frames, i) :
        ~(frames[a].fn = "html" /\ frames[a].url = frames[i].url)

\* ------------------------------------------------------------------------
\* The file process_asset takes for an asset
\* ------------------------------------------------------------------------

\* the path whose existence makes call i return early: the HTML-coerced
\* path when it exists, else the plain path
FoundPath(i) ==
  With(compute_local_path(OUT, frames[i].url, TRUE), LAMBDA html_path :
    IF path_exists(DOMAIN files, html_path)
    THEN normpath(html_path)
    ELSE normpath(frames[i].local))

RewrittenText(ftype, url, doc) ==
  \A k \in 1..Len(doc) :
    ( /\ \E pass \in 1..passes(ftype) : ref_matches(ftype, pass, doc[k])
      /\ text_ref(doc[k], url, TS1).act = "call" )
    => doc[k].st # "kept"

\* the files that hold what was written to them and came from a
\* stylesheet or script of the archive
TextFiles ==
  { p \in DOMAIN files :
      /\ files[p].intact
      /\ HasRes(world, files[p].src)
      /\ asset_ftype(files[p].src, ResOf(world, files[p].src).content)
           \in {"css", "js"} }

====
